---- MODULE Spec2Model ----
(***************************************************************************)
(* Model of imgsim's pixel clustering engine: the pixel distance metric    *)
(* (pixeldist/algs.rs), the adjacency factors of an image                  *)
(* (data/imgsim_image.rs) and the two clustering algorithms                *)
(* (clustering/algs.rs).                                                   *)
(*                                                                         *)
(* Numbers.  The program computes distances as f32.  Every distance the    *)
(* program compares is the square root of a rational, so the model keeps   *)
(* the SQUARE of a normalised distance as an exact integer numerator over  *)
(* the common denominator DistDen: d is represented by d*d*DistDen.  The   *)
(* square root is monotone on non-negative values, so 0 <= d, d <= 1,      *)
(* d = e and d < e are decided by the same comparisons of the numerators   *)
(* (with 1 represented by DistDen).                                        *)
(***************************************************************************)
EXTENDS Integers, Naturals, Sequences, FiniteSets, TLC

(***************************************************************************)
(* Bounds of the model.                                                    *)
(***************************************************************************)
\* channel values of the pixel pairs of the distance function: NLevels
\* evenly spread values of 0..255, always with 0 and 255
NLevels == 3
\* images have at most MaxPixels pixels (every width x height with
\* width * height <= MaxPixels)
MaxPixels == 4
\* the configured tolerance is a multiple of 1 / 2^TolBits (exact in f32, as is
\* its product with a small factor count), from 0 up to 1 + 1 / 2^TolBits
TolBits == 3
\* the configured max_k of k_means ranges over 0..MaxK
MaxK == 3
\* a square root is kept to 1/WcssScale (within-cluster sums add square roots)
WcssScale == 100
\* the Lloyd loop of the model is followed for at most MaxIterations passes
MaxIterations == 34

(***************************************************************************)
(* Program constants.                                                      *)
(***************************************************************************)
U8Max == 255
\* euclidean: max_diff_for_normalisation
MaxDiffEuclidean == 195075
\* redmean: max_diff_for_normalisation
MaxDiffRedmean == 585225
\* k_means: MAX_CYCLES
MAX_CYCLES == 30
\* f32::MAX, above every distance
F32Max == 2147483647

\* common denominator of the squared distances: the redmean weights are
\* multiples of 1/510
DistDen == 510 * MaxDiffRedmean

VARIABLES
    pixel_a,        \* get_pixeldist: first pixel <<r, g, b, a>>
    pixel_b,        \* get_pixeldist: second pixel
    pixeldist_alg,  \* ImgsimOptions.args.pixeldist_alg
    dist_result,    \* value returned by get_pixeldist, NoDist before the call
    dist_pc,        \* "call" before the call of get_pixeldist (or of one of
                    \* the functions below), "returned" after
    sim_result,     \* value returned by avg_colour_sim(pixel_a, pixel_b), NoSim
                    \* before the call
    enum_value,     \* match_enum_as_str: self, by its Debug name
    string,         \* match_enum_as_str / get_cli_arg: the given string
    match_result,   \* value returned by match_enum_as_str
    cli_arg,        \* Option returned by get_cli_arg: <<>> is None, <<v>> is
                    \* Some(v)
    rgba_image,         \* ImgsimImage.rgba_image: [width, height, pixels]
    pixeldist_factors,  \* ImgsimImage.pixeldist_factors
    cluster_lookup,     \* ImgsimImage.cluster_lookup: coordinate -> cluster id
    pixel_clusters,     \* ImgsimImage.pixel_clusters: cluster id -> member list
    agglo_tolerance,    \* ImgsimOptions.agglo_tolerance(), in units of 1/TolDen
    clustering_alg,     \* ImgsimOptions.clustering_alg()
    pc,                 \* position of main's per-image pipeline
    nth_percentile_dist,\* agglomerative: the threshold
    new_cluster_lookup, \* agglomerative / k_means: local lookup table
    new_pixel_clusters, \* agglomerative / k_means: local member lists
    factor_idx,         \* agglomerative: 1-based position of the factor loop
    last_merge,         \* agglomerative: what the last processed factor did
    max_k,              \* ImgsimOptions.max_k()
    k,                  \* k_means: the candidate k of the outer loop
    centroids,          \* k_means: list of <<coords, rgb>>
    converged,          \* k_means: flag of the Lloyd loop
    iteration_count,    \* k_means: passes of the Lloyd loop for this k
    wcss_history,       \* k_means: new_wcss of every pass for this k
    last_pass,          \* k_means: what the latest pass of the Lloyd loop
                        \* started from: its centroids and old_cluster_lookup
    k_partitions,       \* history: the maps each finished k ended with, in loop
                        \* order (the program keeps only the latest: its
                        \* best_cluster_lookup, best_pixel_clusters and
                        \* silhouette are declared and never written)
    par_results,        \* build_factors / k_means: what the closures of the
                        \* running parallel iterator have returned so far, in
                        \* the order they finished: [index, item]
    image_names,        \* get_similarities: the names of the images, in order
    matrix,             \* ImageSimilarityMatrix.matrix: <<name, name>> -> Option
    get_names,          \* ImageSimilarityMatrix::get: <<name1, name2>>
    get_result          \* value returned by ImageSimilarityMatrix::get

distVars == <<pixel_a, pixel_b, dist_result, dist_pc>>

callVars == <<sim_result, enum_value, string, match_result, cli_arg>>

imageVars == <<rgba_image, pixeldist_factors, cluster_lookup, pixel_clusters>>

optionVars == <<pixeldist_alg, agglo_tolerance, clustering_alg, max_k>>

aggloVars == <<nth_percentile_dist, new_cluster_lookup, new_pixel_clusters,
               factor_idx, last_merge>>

kmeansVars == <<k, centroids, converged, iteration_count, wcss_history,
                last_pass, k_partitions>>

matrixVars == <<image_names, matrix, get_names, get_result>>

vars == <<distVars, callVars, imageVars, optionVars, pc, aggloVars, kmeansVars,
          par_results, matrixVars>>

NoDist == 0 - 1

NoSim == 0 - 1

PixeldistAlg == {"Euclidean", "Redmean"}

Sq(n) == n * n

WHITE == <<255, 255, 255, 255>>
BLACK == <<0, 0, 0, 255>>

(***************************************************************************)
(* pixeldist/algs.rs                                                       *)
(***************************************************************************)
\* |a_a - a_b| / 255, squared and scaled: DistDen / 255^2 = 4590
alpha_only_dist(a_a, a_b) ==
    LET diff == IF a_a >= a_b THEN a_a - a_b ELSE a_b - a_a
    IN  Sq(diff) * (DistDen \div Sq(U8Max))

\* a plausible slip: the three channel differences normalised by one channel's
\* maximum
euclidean_one_channel_norm(pa, pb) ==
    IF pa[4] # 0 /\ pb[4] # 0
    THEN (Sq(pa[1] - pb[1]) + Sq(pa[2] - pb[2]) + Sq(pa[3] - pb[3]))
            * (DistDen \div Sq(U8Max))
    ELSE alpha_only_dist(pa[4], pb[4])

\* sqrt((dr^2 + dg^2 + db^2) / 195075), or the alpha-only distance when either
\* pixel is fully transparent
euclidean(pa, pb) ==
    IF pa[4] # 0 /\ pb[4] # 0
    THEN (Sq(pa[1] - pb[1]) + Sq(pa[2] - pb[2]) + Sq(pa[3] - pb[3]))
            * (DistDen \div MaxDiffEuclidean)
    ELSE alpha_only_dist(pa[4], pb[4])

\* a plausible slip: rmean taken from the first pixel alone
redmean_rmean_of_a(pa, pb) ==
    IF pa[4] # 0 /\ pb[4] # 0
    THEN LET rsum == pa[1] + pa[1]
         IN  (1020 + rsum) * Sq(pa[1] - pb[1])
             + 2040 * Sq(pa[2] - pb[2])
             + (1530 - rsum) * Sq(pa[3] - pb[3])
    ELSE alpha_only_dist(pa[4], pb[4])

\* rmean = (ar + br) / 2; r_multiple = 2 + rmean/255 = (1020 + ar + br)/510;
\* g_multiple = 4 = 2040/510; b_multiple = 2 + (255 - rmean)/255
\* = (1530 - (ar + br))/510; the weighted sum over 585225
redmean(pa, pb) ==
    IF pa[4] # 0 /\ pb[4] # 0
    THEN LET rsum == pa[1] + pb[1]
         IN  (1020 + rsum) * Sq(pa[1] - pb[1])
             + 2040 * Sq(pa[2] - pb[2])
             + (1530 - rsum) * Sq(pa[3] - pb[3])
    ELSE alpha_only_dist(pa[4], pb[4])

get_pixeldist(pa, pb, alg) ==
    IF alg = "Euclidean" THEN euclidean(pa, pb) ELSE redmean(pa, pb)

(***************************************************************************)
(* Images.  A coordinate is <<x, y>>; enumerate_pixels visits the          *)
(* coordinates in raster (row-major) order.                                *)
(***************************************************************************)
EmptyMap == [c \in {} |-> 0]

Range(s) == {s[i] : i \in DOMAIN s}

Coords(w, h) == (0..(w - 1)) \X (0..(h - 1))

\* the i-th coordinate (0-based) of enumerate_pixels
RasterCoord(img, i) == <<i % img.width, i \div img.width>>

NumPixels(img) == img.width * img.height

\* RgbaImage::get_pixel_checked: Some exactly for in-bounds coordinates
InBounds(img, x, y) == x < img.width /\ y < img.height

(***************************************************************************)
(* data/imgsim_image.rs: build_factors                                     *)
(***************************************************************************)
\* PixeldistFactor::new
PixeldistFactor(a, b, d) == [a_coords |-> a, b_coords |-> b, distance |-> d]

\* the closure of flat_map: the factors of pixel (x, y) with its right,
\* bottom-right, bottom and bottom-left neighbours, as far as they exist
FactorsOfPixel(img, alg, x, y) ==
    LET pixel == img.pixels[<<x, y>>]
        Neighbour(nx, ny) ==
            <<PixeldistFactor(<<x, y>>, <<nx, ny>>,
                              get_pixeldist(pixel, img.pixels[<<nx, ny>>], alg))>>
    IN  (IF InBounds(img, x + 1, y) THEN Neighbour(x + 1, y) ELSE <<>>)
        \o (IF InBounds(img, x + 1, y + 1) THEN Neighbour(x + 1, y + 1) ELSE <<>>)
        \o (IF InBounds(img, x, y + 1) THEN Neighbour(x, y + 1) ELSE <<>>)
        \o (IF x > 0 /\ InBounds(img, x - 1, y + 1)
            THEN Neighbour(x - 1, y + 1) ELSE <<>>)

\* flat_map over par_enumerate_pixels, collected in order: the factors of the
\* pixels i, i+1, ... of the raster scan, concatenated
RECURSIVE FlatMapFactors(_, _, _)
FlatMapFactors(img, alg, i) ==
    IF i >= NumPixels(img)
    THEN <<>>
    ELSE LET c == RasterCoord(img, i)
         IN  FactorsOfPixel(img, alg, c[1], c[2]) \o FlatMapFactors(img, alg, i + 1)

(***************************************************************************)
(* clustering/algs.rs: agglomerative                                       *)
(***************************************************************************)
TolDen == 2 ^ TolBits

SeqMin(s) == CHOOSE m \in Range(s) : \A v \in Range(s) : m <= v

RemoveAt(s, i) == SubSeq(s, 1, i - 1) \o SubSeq(s, i + 1, Len(s))

\* sort_unstable_by(partial_cmp): the values in ascending order
RECURSIVE SortAscending(_)
SortAscending(s) ==
    IF s = <<>>
    THEN <<>>
    ELSE LET m == SeqMin(s)
             i == CHOOSE j \in DOMAIN s : s[j] = m
         IN  <<m>> \o SortAscending(RemoveAt(s, i))

\* sorted_dists: the factor distances, sorted
SortedDists(factors) ==
    SortAscending([i \in DOMAIN factors |-> factors[i].distance])

\* a plausible slip: the first index rounded down as well
CeilIndexRoundedDown(n, tol) == (n * tol) \div TolDen

\* (len as f32 * tolerance).ceil() as usize and .floor() as usize, for a
\* tolerance of tol / TolDen >= 0
CeilIndex(n, tol) == (n * tol + TolDen - 1) \div TolDen
FloorIndex(n, tol) == (n * tol) \div TolDen

\* Vec::get with a 0-based index: Some exactly below the length
HasIndex(s, idx) == idx < Len(s)

\* whether the unwrap of the fallback succeeds
ThresholdDefined(sorted, tol) ==
    \/ HasIndex(sorted, CeilIndex(Len(sorted), tol))
    \/ HasIndex(sorted, FloorIndex(Len(sorted), tol))

\* nth_percentile_dist, where defined
NthPercentileDist(sorted, tol) ==
    IF HasIndex(sorted, CeilIndex(Len(sorted), tol))
    THEN sorted[CeilIndex(Len(sorted), tol) + 1]
    ELSE sorted[FloorIndex(Len(sorted), tol) + 1]

\* the singleton initialisation: cluster id = raster index
InitClusterLookup(img) ==
    [c \in Coords(img.width, img.height) |-> c[2] * img.width + c[1]]

InitPixelClusters(img) ==
    [id \in 0..(NumPixels(img) - 1) |-> <<RasterCoord(img, id)>>]

\* the merge test of the factor loop
\* a plausible slip: <= for <, so that a distance equal to the threshold merges
ShouldMergeAtThreshold(a_cluster, b_cluster, distance, threshold) ==
    (a_cluster # b_cluster) /\ (distance <= threshold)

ShouldMerge(a_cluster, b_cluster, distance, threshold) ==
    (a_cluster # b_cluster) /\ (distance < threshold)

\* a plausible slip: >= for >, so that a tie lets the first cluster consume
PredatorPreyTieFirst(a_cluster, b_cluster, clusters) ==
    IF Len(clusters[a_cluster]) >= Len(clusters[b_cluster])
    THEN <<a_cluster, b_cluster>>
    ELSE <<b_cluster, a_cluster>>

\* the choice of the consuming cluster: <<predator_cluster_id, prey_cluster_id>>
PredatorPrey(a_cluster, b_cluster, clusters) ==
    IF Len(clusters[a_cluster]) > Len(clusters[b_cluster])
    THEN <<a_cluster, b_cluster>>
    ELSE <<b_cluster, a_cluster>>

\* a plausible slip: the prey's list is copied, not taken
consume_cluster_prey_kept(predator_cluster_id, prey_cluster_id, clusters, lookup) ==
    LET prey_cluster_items == clusters[prey_cluster_id]
    IN  [pixel_clusters |->
            [clusters EXCEPT ![predator_cluster_id] = @ \o prey_cluster_items],
         cluster_lookup |->
            [c \in DOMAIN lookup |->
                IF c \in Range(prey_cluster_items)
                THEN predator_cluster_id
                ELSE lookup[c]]]

\* a plausible slip: only the first member of the prey is relabelled
consume_cluster_one_relabel(predator_cluster_id, prey_cluster_id, clusters, lookup) ==
    LET prey_cluster_items == clusters[prey_cluster_id]
    IN  [pixel_clusters |->
            [clusters EXCEPT ![prey_cluster_id] = <<>>,
                             ![predator_cluster_id] = @ \o prey_cluster_items],
         cluster_lookup |->
            [c \in DOMAIN lookup |->
                IF prey_cluster_items # <<>> /\ c = prey_cluster_items[1]
                THEN predator_cluster_id
                ELSE lookup[c]]]

\* a plausible slip: the predator's members are relabelled, not the prey's
consume_cluster_relabel_predator(predator_cluster_id, prey_cluster_id, clusters, lookup) ==
    LET prey_cluster_items == clusters[prey_cluster_id]
    IN  [pixel_clusters |->
            [clusters EXCEPT ![prey_cluster_id] = <<>>,
                             ![predator_cluster_id] = @ \o prey_cluster_items],
         cluster_lookup |->
            [c \in DOMAIN lookup |->
                IF c \in Range(clusters[predator_cluster_id])
                THEN prey_cluster_id
                ELSE lookup[c]]]

\* consume_cluster: the prey's member list is taken (left empty), each of its
\* members is relabelled in the lookup table, and the list is appended to the
\* predator's
consume_cluster(predator_cluster_id, prey_cluster_id, clusters, lookup) ==
    LET prey_cluster_items == clusters[prey_cluster_id]
    IN  [pixel_clusters |->
            [clusters EXCEPT ![prey_cluster_id] = <<>>,
                             ![predator_cluster_id] = @ \o prey_cluster_items],
         cluster_lookup |->
            [c \in DOMAIN lookup |->
                IF c \in Range(prey_cluster_items)
                THEN predator_cluster_id
                ELSE lookup[c]]]

NoMerge == [merged |-> FALSE]

(***************************************************************************)
(* main.rs: the pipeline of one image, build_factors then build_clusters.  *)
(***************************************************************************)
\* ImgsimImage::build_factors: par_extend appends the collected factors
BuildFactors ==
    /\ pc = "build_factors"
    /\ pixeldist_factors' =
            pixeldist_factors \o FlatMapFactors(rgba_image, pixeldist_alg, 0)
    /\ pc' = "get_clusters"
    /\ UNCHANGED <<distVars, callVars, matrixVars, par_results,
                   rgba_image, cluster_lookup, pixel_clusters,
                   optionVars, aggloVars, kmeansVars>>

\* get_clusters -> agglomerative: the threshold; the unwrap panics when neither
\* index is in the list
AggloThreshold ==
    /\ pc = "get_clusters"
    /\ clustering_alg = "Agglomerative"
    /\ LET sorted_dists == SortedDists(pixeldist_factors)
       IN  IF ThresholdDefined(sorted_dists, agglo_tolerance)
           THEN /\ nth_percentile_dist' =
                        NthPercentileDist(sorted_dists, agglo_tolerance)
                /\ pc' = "agglo_init"
           ELSE /\ nth_percentile_dist' = nth_percentile_dist
                /\ pc' = "panicked"
    /\ UNCHANGED <<distVars, callVars, matrixVars, par_results,
                   imageVars, optionVars, new_cluster_lookup,
                   new_pixel_clusters, factor_idx, last_merge, kmeansVars>>

\* agglomerative: each pixel in its own cluster
AggloInitMaps ==
    /\ pc = "agglo_init"
    /\ new_cluster_lookup' = InitClusterLookup(rgba_image)
    /\ new_pixel_clusters' = InitPixelClusters(rgba_image)
    /\ factor_idx' = 1
    /\ pc' = "agglo_loop"
    /\ UNCHANGED <<distVars, callVars, matrixVars, par_results,
                   imageVars, optionVars, nth_percentile_dist,
                   last_merge, kmeansVars>>

\* agglomerative: one pass of the for_each over the factors
AggloFactor ==
    /\ pc = "agglo_loop"
    /\ factor_idx <= Len(pixeldist_factors)
    /\ LET factor == pixeldist_factors[factor_idx]
           a_cluster == new_cluster_lookup[factor.a_coords]
           b_cluster == new_cluster_lookup[factor.b_coords]
       IN  IF ShouldMerge(a_cluster, b_cluster, factor.distance,
                          nth_percentile_dist)
           THEN LET pp == PredatorPrey(a_cluster, b_cluster, new_pixel_clusters)
                    after == consume_cluster(pp[1], pp[2], new_pixel_clusters,
                                             new_cluster_lookup)
                IN  /\ new_pixel_clusters' = after.pixel_clusters
                    /\ new_cluster_lookup' = after.cluster_lookup
                    /\ last_merge' =
                         [merged |-> TRUE,
                          a_cluster |-> a_cluster,
                          b_cluster |-> b_cluster,
                          a_len |-> Len(new_pixel_clusters[a_cluster]),
                          b_len |-> Len(new_pixel_clusters[b_cluster]),
                          predator_cluster_id |-> pp[1],
                          prey_cluster_id |-> pp[2]]
           ELSE /\ UNCHANGED <<new_pixel_clusters, new_cluster_lookup>>
                /\ last_merge' = NoMerge
    /\ factor_idx' = factor_idx + 1
    /\ UNCHANGED <<distVars, callVars, matrixVars, par_results,
                   imageVars, optionVars, pc, nth_percentile_dist,
                   kmeansVars>>

\* agglomerative: the maps are written back to the image
AggloFinish ==
    /\ pc = "agglo_loop"
    /\ factor_idx > Len(pixeldist_factors)
    /\ cluster_lookup' = new_cluster_lookup
    /\ pixel_clusters' = new_pixel_clusters
    /\ pc' = "done"
    /\ UNCHANGED <<distVars, callVars, matrixVars, par_results,
                   rgba_image, pixeldist_factors, optionVars,
                   aggloVars, kmeansVars>>

(***************************************************************************)
(* clustering/algs.rs: k_means                                             *)
(*                                                                         *)
(* euclidean_dist is the square root of an integer sum of at most 195075;  *)
(* distinct sums have distinct f32 roots, so its comparisons are those of  *)
(* the sums.  Where roots are added (new_wcss) the root is kept to         *)
(* 1/WcssScale.                                                            *)
(***************************************************************************)
Rgb(pixel) == <<pixel[1], pixel[2], pixel[3]>>

\* euclidean_dist, squared
euclidean_dist(p, q) == Sq(p[1] - q[1]) + Sq(p[2] - q[2]) + Sq(p[3] - q[3])

\* the largest r in lo..hi with r * r <= v
RECURSIVE ISqrtBetween(_, _, _)
ISqrtBetween(v, lo, hi) ==
    IF lo >= hi
    THEN lo
    ELSE LET mid == (lo + hi + 1) \div 2
         IN  IF mid * mid <= v
             THEN ISqrtBetween(v, mid, hi)
             ELSE ISqrtBetween(v, lo, mid - 1)

\* .sqrt() of a squared distance, in units of 1/WcssScale
SqrtScaled(sq) == ISqrtBetween(sq * WcssScale * WcssScale, 0, 442 * WcssScale)

\* BTreeMap::insert: the entry is added or overwritten
MapInsert(m, key, val) ==
    [x \in (DOMAIN m) \cup {key} |-> IF x = key THEN val ELSE m[x]]

\* the distance of the centroid closest to a pixel (lines 252-261)
RECURSIVE ClosestCentroidDist(_, _, _, _)
ClosestCentroidDist(rgb, cents, i, closest_centroid_dist) ==
    IF i > Len(cents)
    THEN closest_centroid_dist
    ELSE LET dist == euclidean_dist(rgb, cents[i][2])
         IN  ClosestCentroidDist(rgb, cents, i + 1,
                IF dist < closest_centroid_dist THEN dist ELSE closest_centroid_dist)

\* a plausible slip: >= for >, so that the last pixel of a tie is kept
RECURSIVE MaxDistPixelLastTie(_, _, _, _)
MaxDistPixelLastTie(img, cents, i, max_dist_pixel) ==
    IF i >= NumPixels(img)
    THEN max_dist_pixel
    ELSE LET c == RasterCoord(img, i)
             rgb == Rgb(img.pixels[c])
             closest_centroid_dist == ClosestCentroidDist(rgb, cents, 1, F32Max)
         IN  MaxDistPixelLastTie(img, cents, i + 1,
                IF closest_centroid_dist >= max_dist_pixel[3]
                THEN <<c, rgb, closest_centroid_dist>>
                ELSE max_dist_pixel)

\* the scan for max_dist_pixel (lines 246-267): <<coords, rgb, dist>>
RECURSIVE MaxDistPixel(_, _, _, _)
MaxDistPixel(img, cents, i, max_dist_pixel) ==
    IF i >= NumPixels(img)
    THEN max_dist_pixel
    ELSE LET c == RasterCoord(img, i)
             rgb == Rgb(img.pixels[c])
             closest_centroid_dist == ClosestCentroidDist(rgb, cents, 1, F32Max)
         IN  MaxDistPixel(img, cents, i + 1,
                IF closest_centroid_dist > max_dist_pixel[3]
                THEN <<c, rgb, closest_centroid_dist>>
                ELSE max_dist_pixel)

\* the remaining k - 1 centroids (lines 244-273), from loop index cluster_id on
RECURSIVE SeedRemaining(_, _, _, _, _, _)
SeedRemaining(img, kk, cluster_id, cents, lookup, clusters) ==
    IF cluster_id >= kk - 1
    THEN [centroids |-> cents, cluster_lookup |-> lookup, pixel_clusters |-> clusters]
    ELSE LET max_dist_pixel ==
                MaxDistPixel(img, cents, 0, <<<<0, 0>>, <<0, 0, 0>>, 0>>)
         IN  SeedRemaining(img, kk, cluster_id + 1,
                Append(cents, <<max_dist_pixel[1], max_dist_pixel[2]>>),
                MapInsert(lookup, max_dist_pixel[1], cluster_id + 1),
                MapInsert(clusters, cluster_id + 1, <<max_dist_pixel[1]>>))

\* STEP I for a first centroid at (rand_x, rand_y)
Seeding(img, kk, rand_x, rand_y) ==
    LET first == <<rand_x, rand_y>>
    IN  SeedRemaining(img, kk, 0,
            <<<<first, Rgb(img.pixels[first])>>>>,
            MapInsert(EmptyMap, first, 0),
            MapInsert(EmptyMap, 0, <<first>>))

\* a plausible slip: <= for <, so that the last centroid of a tie is kept
RECURSIVE MinCentroidCoordsLastTie(_, _, _, _, _)
MinCentroidCoordsLastTie(rgb, cents, i, min_dist, min_centroid_coords) ==
    IF i > Len(cents)
    THEN min_centroid_coords
    ELSE LET dist == euclidean_dist(rgb, cents[i][2])
         IN  IF dist <= min_dist
             THEN MinCentroidCoordsLastTie(rgb, cents, i + 1, dist, cents[i][1])
             ELSE MinCentroidCoordsLastTie(rgb, cents, i + 1, min_dist,
                                           min_centroid_coords)

\* the coordinates of the closest centroid, first found (lines 308-316)
RECURSIVE MinCentroidCoords(_, _, _, _, _)
MinCentroidCoords(rgb, cents, i, min_dist, min_centroid_coords) ==
    IF i > Len(cents)
    THEN min_centroid_coords
    ELSE LET dist == euclidean_dist(rgb, cents[i][2])
         IN  IF dist < min_dist
             THEN MinCentroidCoords(rgb, cents, i + 1, dist, cents[i][1])
             ELSE MinCentroidCoords(rgb, cents, i + 1, min_dist, min_centroid_coords)

\* iter().position(): 0-based index of the first centroid at these coordinates
PositionOf(cents, coords) ==
    (CHOOSE i \in DOMAIN cents :
        /\ cents[i][1] = coords
        /\ \A j \in 1..(i - 1) : cents[j][1] # coords) - 1

\* the Movement of the pixel at raster index i
MovementOf(img, cents, i) ==
    LET c == RasterCoord(img, i)
    IN  [coords |-> c,
         cluster_to |->
            PositionOf(cents,
                MinCentroidCoords(Rgb(img.pixels[c]), cents, 1, F32Max, <<0, 0>>))]

\* movement_list: the map over par_enumerate_pixels, collected in order
MovementList(img, cents) ==
    [i \in 1..NumPixels(img) |-> MovementOf(img, cents, i - 1)]

\* the movements applied one after the other to the cleared maps (lines 329-338)
RECURSIVE MovePixels(_, _, _, _)
MovePixels(movement_list, i, lookup, clusters) ==
    IF i > Len(movement_list)
    THEN [cluster_lookup |-> lookup, pixel_clusters |-> clusters]
    ELSE LET movement == movement_list[i]
         IN  MovePixels(movement_list, i + 1,
                MapInsert(lookup, movement.coords, movement.cluster_to),
                IF movement.cluster_to \in DOMAIN clusters
                THEN [clusters EXCEPT ![movement.cluster_to] =
                                            Append(@, movement.coords)]
                ELSE MapInsert(clusters, movement.cluster_to, <<movement.coords>>))

RECURSIVE SumChannel(_, _, _)
SumChannel(img, members, ch) ==
    IF members = <<>>
    THEN 0
    ELSE img.pixels[Head(members)][ch] + SumChannel(img, Tail(members), ch)

\* <<r_mean as u8, g_mean as u8, b_mean as u8>> of a member list
MeanRgb(img, members) ==
    <<SumChannel(img, members, 1) \div Len(members),
      SumChannel(img, members, 2) \div Len(members),
      SumChannel(img, members, 3) \div Len(members)>>

\* the member closest to the mean, first found (lines 364-381):
\* <<closest_coords, closest_rgb>>
RECURSIVE ClosestToMean(_, _, _, _, _, _)
ClosestToMean(img, members, mean, i, closest_dist, closest) ==
    IF i > Len(members)
    THEN closest
    ELSE LET rgb == Rgb(img.pixels[members[i]])
             dist == euclidean_dist(rgb, mean)
         IN  IF dist < closest_dist
             THEN ClosestToMean(img, members, mean, i + 1, dist, <<members[i], rgb>>)
             ELSE ClosestToMean(img, members, mean, i + 1, closest_dist, closest)

\* what the scan of one centroid's cluster adds to new_wcss
RECURSIVE WcssOfMembers(_, _, _)
WcssOfMembers(img, members, mean) ==
    IF members = <<>>
    THEN 0
    ELSE SqrtScaled(euclidean_dist(Rgb(img.pixels[Head(members)]), mean))
            + WcssOfMembers(img, Tail(members), mean)

\* the list of the cluster the centroid's own coordinate is assigned to
ClusterOfCentroid(centroid, lookup, clusters) == clusters[lookup[centroid[1]]]

\* a plausible slip: the running minimum starts at 0.0, so that no member
\* is ever closer
NewCentroidMinFromZero(img, centroid, lookup, clusters) ==
    LET members == ClusterOfCentroid(centroid, lookup, clusters)
    IN  ClosestToMean(img, members, MeanRgb(img, members), 1, 0,
                      <<<<0, 0>>, <<0, 0, 0>>>>)

\* the closure of the map over the centroids (lines 347-382)
NewCentroid(img, centroid, lookup, clusters) ==
    LET members == ClusterOfCentroid(centroid, lookup, clusters)
    IN  ClosestToMean(img, members, MeanRgb(img, members), 1, F32Max,
                      <<<<0, 0>>, <<0, 0, 0>>>>)

NewCentroids(img, cents, lookup, clusters) ==
    [i \in DOMAIN cents |-> NewCentroid(img, cents[i], lookup, clusters)]

\* new_wcss after the map over the centroids
RECURSIVE NewWcss(_, _, _, _, _)
NewWcss(img, cents, i, lookup, clusters) ==
    IF i > Len(cents)
    THEN 0
    ELSE LET members == ClusterOfCentroid(cents[i], lookup, clusters)
         IN  WcssOfMembers(img, members, MeanRgb(img, members))
                + NewWcss(img, cents, i + 1, lookup, clusters)

\* a plausible slip: coordinates missing before the pass are skipped
SameLookupPresentOnly(img, old_cluster_lookup, lookup) ==
    \A c \in Coords(img.width, img.height) :
        c \in DOMAIN old_cluster_lookup =>
            c \in DOMAIN lookup /\ old_cluster_lookup[c] = lookup[c]

\* the closure "Check if converged" (lines 387-407)
SameLookup(img, old_cluster_lookup, lookup) ==
    \A c \in Coords(img.width, img.height) :
        IF c \in DOMAIN old_cluster_lookup
        THEN c \in DOMAIN lookup /\ old_cluster_lookup[c] = lookup[c]
        ELSE c \notin DOMAIN lookup

\* a plausible slip: > for <, so that the rule fires on the higher step
StuckInCycleHigherStep(history) ==
    LET wcslen == Len(history)
    IN  /\ wcslen >= MAX_CYCLES
        /\ history[wcslen] > history[wcslen - 1]
        /\ \A i \in 0..(MAX_CYCLES - 1) :
              IF i % 2 = 0
              THEN history[wcslen - i] = history[wcslen]
              ELSE history[wcslen - i] = history[wcslen - 1]

\* the cycle check (lines 412-440) on the history with the new entry
StuckInCycle(history) ==
    LET wcslen == Len(history)
    IN  /\ wcslen >= MAX_CYCLES
        /\ history[wcslen] < history[wcslen - 1]
        /\ \A i \in 0..(MAX_CYCLES - 1) :
              IF i % 2 = 0
              THEN history[wcslen - i] = history[wcslen]
              ELSE history[wcslen - i] = history[wcslen - 1]

\* no pass of the Lloyd loop has run for this k
NoPass == [centroids |-> <<>>, old_cluster_lookup |-> EmptyMap]

\* one pass of while !converged as a function of the centroids it starts
\* with: the maps are cleared and rebuilt (lines 290-383)
LloydPass(img, cents) ==
    LET moved == MovePixels(MovementList(img, cents), 1, EmptyMap, EmptyMap)
    IN  [centroids |-> NewCentroids(img, cents, moved.cluster_lookup,
                                    moved.pixel_clusters),
         cluster_lookup |-> moved.cluster_lookup,
         new_wcss |-> NewWcss(img, cents, 1, moved.cluster_lookup,
                              moved.pixel_clusters)]

\* get_clusters -> k_means: the maps start empty, the loop over k starts at 2
KMeansBegin ==
    /\ pc = "get_clusters"
    /\ clustering_alg = "KMeans"
    /\ new_cluster_lookup' = EmptyMap
    /\ new_pixel_clusters' = EmptyMap
    /\ k' = 2
    /\ pc' = IF 2 < max_k + 1 THEN "kmeans_seed" ELSE "kmeans_finish"
    /\ UNCHANGED <<distVars, callVars, matrixVars, par_results,
                   imageVars, optionVars, nth_percentile_dist,
                   factor_idx, last_merge, centroids, converged,
                   iteration_count, wcss_history, last_pass, k_partitions>>

\* STEP I for the current k, with a random first centroid
KMeansSeed ==
    /\ pc = "kmeans_seed"
    /\ \E rand_x \in 0..(rgba_image.width - 1),
          rand_y \in 0..(rgba_image.height - 1) :
          \E seeded \in {Seeding(rgba_image, k, rand_x, rand_y)} :
              /\ centroids' = seeded.centroids
              /\ new_cluster_lookup' = seeded.cluster_lookup
              /\ new_pixel_clusters' = seeded.pixel_clusters
    /\ converged' = FALSE
    /\ iteration_count' = 0
    /\ wcss_history' = <<>>
    /\ last_pass' = NoPass
    /\ pc' = "kmeans_lloyd"
    /\ UNCHANGED <<distVars, callVars, matrixVars, par_results,
                   imageVars, optionVars, nth_percentile_dist,
                   factor_idx, last_merge, k, k_partitions>>

\* STEP II: one pass of while !converged
KMeansIterate ==
    /\ pc = "kmeans_lloyd"
    /\ ~converged
    /\ iteration_count < MaxIterations
    /\ \E moved \in {MovePixels(MovementList(rgba_image, centroids), 1,
                                EmptyMap, EmptyMap)} :
          LET old_cluster_lookup == new_cluster_lookup
              new_wcss == NewWcss(rgba_image, centroids, 1, moved.cluster_lookup,
                                  moved.pixel_clusters)
              history == Append(wcss_history, new_wcss)
          IN  /\ new_cluster_lookup' = moved.cluster_lookup
              /\ new_pixel_clusters' = moved.pixel_clusters
              /\ centroids' = NewCentroids(rgba_image, centroids,
                                           moved.cluster_lookup,
                                           moved.pixel_clusters)
              /\ wcss_history' = history
              /\ converged' =
                   (\/ SameLookup(rgba_image, old_cluster_lookup,
                                  moved.cluster_lookup)
                    \/ StuckInCycle(wcss_history'))
    /\ iteration_count' = iteration_count + 1
    /\ last_pass' = [centroids |-> centroids,
                     old_cluster_lookup |-> new_cluster_lookup]
    /\ UNCHANGED <<distVars, callVars, matrixVars, par_results,
                   imageVars, optionVars, pc, nth_percentile_dist,
                   factor_idx, last_merge, k, k_partitions>>

\* the Lloyd loop has ended: the next k, or the end of the loop over k
KMeansNextK ==
    /\ pc = "kmeans_lloyd"
    /\ converged
    /\ k' = k + 1
    /\ pc' = IF k + 1 < max_k + 1 THEN "kmeans_seed" ELSE "kmeans_finish"
    /\ k_partitions' = Append(k_partitions,
                               [k |-> k,
                                cluster_lookup |-> new_cluster_lookup,
                                pixel_clusters |-> new_pixel_clusters])
    /\ UNCHANGED <<distVars, callVars, matrixVars, par_results,
                   imageVars, optionVars, aggloVars, centroids,
                   converged, iteration_count, wcss_history, last_pass>>

\* the maps of the last k (or the empty maps) are written back to the image
KMeansFinish ==
    /\ pc = "kmeans_finish"
    /\ cluster_lookup' = new_cluster_lookup
    /\ pixel_clusters' = new_pixel_clusters
    /\ pc' = "done"
    /\ UNCHANGED <<distVars, callVars, matrixVars, par_results,
                   rgba_image, pixeldist_factors, optionVars,
                   aggloVars, kmeansVars>>

(***************************************************************************)
(* The images and options of the model.                                    *)
(***************************************************************************)
Red == <<255, 0, 0, 255>>
Blue == <<0, 0, 255, 255>>
Yellow == <<255, 255, 0, 255>>
Magenta == <<255, 0, 255, 255>>
\* the fourth pixel of gen_test_image: blue channels, alpha 0
Transparent == <<0, 0, 255, 0>>

Palette == {Red, Blue, Yellow, Magenta, Transparent}

Shapes == {s \in (1..MaxPixels) \X (1..MaxPixels) : s[1] * s[2] <= MaxPixels}

Images ==
    UNION {{[width |-> s[1], height |-> s[2], pixels |-> p] :
                p \in [Coords(s[1], s[2]) -> Palette]} : s \in Shapes}

\* gen_test_image
TestImage ==
    [width |-> 2, height |-> 2,
     pixels |-> (<<0, 0>> :> Red @@ <<1, 0>> :> Blue
                 @@ <<0, 1>> :> Yellow @@ <<1, 1>> :> Transparent)]

\* tolerances, in units of 1/TolDen: 0, the smallest positive one, the
\* quarters, and the neighbours of 1
Tolerances ==
    {0, 1, TolDen - 1, TolDen, TolDen + 1}
        \cup {i * (TolDen \div 4) : i \in 1..3}

ClusteringAlg == {"KMeans", "Agglomerative"}

NoCentroids == <<>>

\* get_similarities has not been called
NoResult == [ok |-> FALSE, value |-> <<>>, error |-> ""]

MatrixIdle ==
    /\ image_names = <<>>
    /\ matrix = EmptyMap
    /\ get_names = <<"", "">>
    /\ get_result = NoResult

\* the state after ImgsimImage::new, with the options of one algorithm; an
\* option the chosen algorithm never reads is held at one value (k_means reads
\* neither the factors nor the tolerance)
\* no call of avg_colour_sim, match_enum_as_str or get_cli_arg is under way
CallsIdle ==
    /\ sim_result = NoSim
    /\ enum_value = <<>>
    /\ string = <<>>
    /\ match_result = FALSE
    /\ cli_arg = <<>>

InitWithImages(alg, images) ==
    /\ pixel_a = WHITE
    /\ pixel_b = WHITE
    /\ dist_result = NoDist
    /\ dist_pc = "idle"
    /\ CallsIdle
    /\ rgba_image \in images
    /\ pixeldist_factors = <<>>
    /\ cluster_lookup = EmptyMap
    /\ pixel_clusters = EmptyMap
    /\ pixeldist_alg \in
            (IF alg = "Agglomerative" THEN PixeldistAlg ELSE {"Euclidean"})
    /\ clustering_alg = alg
    /\ agglo_tolerance \in
            (IF alg = "Agglomerative" THEN Tolerances ELSE {TolDen \div 2})
    /\ max_k \in (IF alg = "KMeans" THEN 0..MaxK ELSE {2})
    /\ pc = "build_factors"
    /\ nth_percentile_dist = NoDist
    /\ new_cluster_lookup = EmptyMap
    /\ new_pixel_clusters = EmptyMap
    /\ factor_idx = 0
    /\ last_merge = NoMerge
    /\ k = 0
    /\ centroids = NoCentroids
    /\ converged = FALSE
    /\ iteration_count = 0
    /\ wcss_history = <<>>
    /\ last_pass = NoPass
    /\ par_results = <<>>
    /\ MatrixIdle
    /\ k_partitions = <<>>

InitWith(alg) == InitWithImages(alg, Images)

Init == \E alg \in ClusteringAlg : InitWith(alg)

NextAgglo ==
    \/ BuildFactors
    \/ AggloThreshold
    \/ AggloInitMaps
    \/ AggloFactor
    \/ AggloFinish

NextKMeans ==
    \/ BuildFactors
    \/ KMeansBegin
    \/ KMeansSeed
    \/ KMeansIterate
    \/ KMeansNextK
    \/ KMeansFinish

Next ==
    \/ BuildFactors
    \/ AggloThreshold
    \/ AggloInitMaps
    \/ AggloFactor
    \/ AggloFinish
    \/ KMeansBegin
    \/ KMeansSeed
    \/ KMeansIterate
    \/ KMeansNextK
    \/ KMeansFinish

\* get_clusters with either algorithm
Spec == Init /\ [][Next]_vars

\* get_clusters with ClusteringAlg::Agglomerative
SpecAgglo == InitWith("Agglomerative") /\ [][NextAgglo]_vars

\* get_clusters with ClusteringAlg::KMeans
SpecKMeans == InitWith("KMeans") /\ [][NextKMeans]_vars

\* four opaque colours of low intensity, close enough for the truncated
\* cluster means to matter
Dusk == <<8, 3, 0, 255>>
Moss == <<10, 10, 0, 255>>
Fern == <<2, 8, 0, 255>>
Soot == <<1, 0, 0, 255>>

DarkPalette == {Dusk, Moss, Fern, Soot}

\* every image of exactly MaxPixels pixels over the dark palette
DarkImages ==
    UNION {{[width |-> s[1], height |-> s[2], pixels |-> p] :
                p \in [Coords(s[1], s[2]) -> DarkPalette]} :
           s \in {t \in Shapes : t[1] * t[2] = MaxPixels}}

\* get_clusters with ClusteringAlg::KMeans on the dark images
SpecKMeansDark == InitWithImages("KMeans", DarkImages) /\ [][NextKMeans]_vars

\* every image of exactly MaxPixels opaque pixels in the colours of
\* gen_test_image; magenta is as far from red as from blue
OpaqueImages ==
    UNION {{[width |-> s[1], height |-> s[2], pixels |-> p] :
                p \in [Coords(s[1], s[2]) -> Palette \ {Transparent}]} :
           s \in {t \in Shapes : t[1] * t[2] = MaxPixels}}

\* get_clusters with ClusteringAlg::KMeans on the opaque images
SpecKMeansOpaque == InitWithImages("KMeans", OpaqueImages) /\ [][NextKMeans]_vars

\* a row of seven dark pixels on which the Lloyd loop for k = 2 alternates
\* between two assignments
OscillatingRow ==
    <<<<6, 3, 0, 255>>, <<1, 12, 0, 255>>, <<1, 2, 0, 255>>, <<0, 10, 0, 255>>,
      <<0, 1, 0, 255>>, <<7, 8, 0, 255>>, <<9, 1, 0, 255>>>>

\* the row as a 7x1 and as a 1x7 image, each also mirrored
OscillatingImages ==
    LET n == Len(OscillatingRow)
    IN  {[width |-> n, height |-> 1,
          pixels |-> [c \in Coords(n, 1) |-> OscillatingRow[c[1] + 1]]],
         [width |-> n, height |-> 1,
          pixels |-> [c \in Coords(n, 1) |-> OscillatingRow[n - c[1]]]],
         [width |-> 1, height |-> n,
          pixels |-> [c \in Coords(1, n) |-> OscillatingRow[c[2] + 1]]],
         [width |-> 1, height |-> n,
          pixels |-> [c \in Coords(1, n) |-> OscillatingRow[n - c[2]]]]}

\* get_clusters with ClusteringAlg::KMeans on the oscillating images
SpecKMeansOscillating ==
    InitWithImages("KMeans", OscillatingImages) /\ [][NextKMeans]_vars

(***************************************************************************)
(* The two parallel sections, one closure call at a time: build_factors    *)
(* (par_extend of a flat_map over par_enumerate_pixels) and the assignment *)
(* of a Lloyd pass (map over par_enumerate_pixels, collected).  The        *)
(* closures run in any order; rayon joins what they return in the order of *)
(* the iterator.                                                           *)
(***************************************************************************)
\* the 0-based raster indices whose closure has returned
Finished == {par_results[i].index : i \in DOMAIN par_results}

AllFinished == Finished = 0..(NumPixels(rgba_image) - 1)

\* a plausible slip: the items in the order the closures finished
InCompletionOrder(results) == [i \in 1..Len(results) |-> results[i].item]

\* the items in the order of the iterator, whatever order the closures
\* finished in
InIteratorOrder(results) ==
    [i \in 1..Len(results) |->
        results[CHOOSE j \in DOMAIN results : results[j].index = i - 1].item]

RECURSIVE Flatten(_)
Flatten(lists) ==
    IF lists = <<>> THEN <<>> ELSE Head(lists) \o Flatten(Tail(lists))

\* a plausible slip: the factor lists are appended as the closures finish
ParExtendAsFinished(factors, results) ==
    factors \o Flatten(InCompletionOrder(results))

\* Vec::par_extend of the flat_map: the closures' lists appended in the order
\* of the iterator
ParExtend(factors, results) == factors \o Flatten(InIteratorOrder(results))

\* one call of the flat_map closure of build_factors
FactorsClosure ==
    /\ pc = "build_factors"
    /\ \E i \in (0..(NumPixels(rgba_image) - 1)) \ Finished :
          LET c == RasterCoord(rgba_image, i)
          IN  par_results' =
                Append(par_results,
                       [index |-> i,
                        item |-> FactorsOfPixel(rgba_image, pixeldist_alg,
                                                c[1], c[2])])
    /\ UNCHANGED <<distVars, callVars, matrixVars, imageVars, optionVars, pc, aggloVars,
                   kmeansVars>>

\* every closure has returned: par_extend appends the factors
FactorsExtend ==
    /\ pc = "build_factors"
    /\ AllFinished
    /\ pixeldist_factors' = ParExtend(pixeldist_factors, par_results)
    /\ par_results' = <<>>
    /\ pc' = "get_clusters"
    /\ UNCHANGED <<distVars, callVars, matrixVars, rgba_image, cluster_lookup, pixel_clusters,
                   optionVars, aggloVars, kmeansVars>>

\* the head of a pass of the Lloyd loop: old_cluster_lookup is copied and the
\* two maps are cleared (lines 283-291)
PassStart ==
    /\ pc = "kmeans_lloyd"
    /\ ~converged
    /\ iteration_count < MaxIterations
    /\ last_pass' = [centroids |-> centroids,
                     old_cluster_lookup |-> new_cluster_lookup]
    /\ new_cluster_lookup' = EmptyMap
    /\ new_pixel_clusters' = EmptyMap
    /\ pc' = "kmeans_assign"
    /\ UNCHANGED <<distVars, callVars, matrixVars, par_results, imageVars, optionVars,
                   nth_percentile_dist, factor_idx, last_merge, k, centroids,
                   converged, iteration_count, wcss_history, k_partitions>>

\* one call of the map closure of the assignment (lines 304-324)
AssignClosure ==
    /\ pc = "kmeans_assign"
    /\ \E i \in (0..(NumPixels(rgba_image) - 1)) \ Finished :
          par_results' =
              Append(par_results,
                     [index |-> i, item |-> MovementOf(rgba_image, centroids, i)])
    /\ UNCHANGED <<distVars, callVars, matrixVars, imageVars, optionVars, pc, aggloVars,
                   kmeansVars>>

\* movement_list is collected; the rest of the pass runs on one thread: the
\* movements are applied, the centroids recomputed, the loop's flag set
\* (lines 326-440)
PassFinish ==
    /\ pc = "kmeans_assign"
    /\ AllFinished
    /\ \E moved \in {MovePixels(InIteratorOrder(par_results), 1,
                                new_cluster_lookup, new_pixel_clusters)} :
          /\ new_cluster_lookup' = moved.cluster_lookup
          /\ new_pixel_clusters' = moved.pixel_clusters
          /\ centroids' = NewCentroids(rgba_image, centroids,
                                       moved.cluster_lookup, moved.pixel_clusters)
          /\ wcss_history' =
                Append(wcss_history,
                       NewWcss(rgba_image, centroids, 1, moved.cluster_lookup,
                               moved.pixel_clusters))
          /\ converged' =
                (\/ SameLookup(rgba_image, last_pass.old_cluster_lookup,
                               moved.cluster_lookup)
                 \/ StuckInCycle(wcss_history'))
    /\ iteration_count' = iteration_count + 1
    /\ par_results' = <<>>
    /\ pc' = "kmeans_lloyd"
    /\ UNCHANGED <<distVars, callVars, matrixVars, imageVars, optionVars, nth_percentile_dist,
                   factor_idx, last_merge, k, last_pass, k_partitions>>

NextParallel ==
    \/ FactorsClosure
    \/ FactorsExtend
    \/ KMeansBegin
    \/ KMeansSeed
    \/ PassStart
    \/ AssignClosure
    \/ PassFinish
    \/ KMeansNextK
    \/ KMeansFinish

\* every 2x2 image, the shape of gen_test_image, in red, blue and magenta
SquareImages ==
    {[width |-> 2, height |-> 2, pixels |-> p] :
        p \in [Coords(2, 2) -> {Red, Blue, Magenta}]}

\* build_factors and get_clusters with ClusteringAlg::KMeans, the closures of
\* the parallel iterators taken one at a time in every order
SpecParallel == InitWithImages("KMeans", SquareImages) /\ [][NextParallel]_vars

(***************************************************************************)
(* Properties of the agglomerative run.                                    *)
(***************************************************************************)
ImageCoords == Coords(rgba_image.width, rgba_image.height)

\* the places <<id, i>> of the member lists that hold coordinate c
PlacesOf(clusters, c) ==
    {p \in UNION {{<<id, i>> : i \in DOMAIN clusters[id]} : id \in DOMAIN clusters} :
        clusters[p[1]][p[2]] = c}

\* the two maps agree and the member lists partition the image coordinates
IsPartition(lookup, clusters) ==
    /\ DOMAIN lookup = ImageCoords
    /\ \A c \in ImageCoords :
        /\ lookup[c] \in DOMAIN clusters
        /\ c \in Range(clusters[lookup[c]])
        /\ Cardinality(PlacesOf(clusters, c)) = 1
    /\ \A id \in DOMAIN clusters : Range(clusters[id]) \subseteq ImageCoords

NonEmptyClusters(clusters) == {id \in DOMAIN clusters : clusters[id] # <<>>}

(***************************************************************************)
(* C1 as stated: after get_clusters has returned, for either algorithm and *)
(* any configuration, every image coordinate has exactly one cluster_lookup*)
(* entry, the member list of that entry contains it, and the member lists  *)
(* hold every image coordinate exactly once.                               *)
(***************************************************************************)
C1_PartitionAfterGetClusters ==
    pc = "done" => IsPartition(cluster_lookup, pixel_clusters)

\* the same for the runs whose max_k lets the loop over k run at least once
PartitionAfterGetClustersFromTwo ==
    (pc = "done" /\ max_k >= 2) => IsPartition(cluster_lookup, pixel_clusters)

(***************************************************************************)
(* C2: during agglomerative, after the initialisation and after each       *)
(* processed factor, every coordinate is in the member list of its lookup  *)
(* entry and the member lists hold every image coordinate exactly once.    *)
(***************************************************************************)
C2_AggloPartition ==
    pc = "agglo_loop" => IsPartition(new_cluster_lookup, new_pixel_clusters)

C2_Witness ==
    /\ pc = "agglo_loop"
    /\ last_merge.merged
    /\ \E id \in DOMAIN new_pixel_clusters : Len(new_pixel_clusters[id]) >= 3
    /\ IsPartition(new_cluster_lookup, new_pixel_clusters)

(***************************************************************************)
(* C3: from one processed factor to the next the number of non-empty       *)
(* clusters never increases, and two coordinates with the same lookup      *)
(* value keep having the same lookup value.                                *)
(***************************************************************************)
C3_AggloMonotone ==
    [][(pc = "agglo_loop" /\ pc' = "agglo_loop") =>
        /\ Cardinality(NonEmptyClusters(new_pixel_clusters'))
              <= Cardinality(NonEmptyClusters(new_pixel_clusters))
        /\ \A c, d \in ImageCoords :
              new_cluster_lookup[c] = new_cluster_lookup[d]
                  => new_cluster_lookup'[c] = new_cluster_lookup'[d]]_vars

\* a cluster of two pixels has been absorbed whole by another one
C3_Witness ==
    /\ pc = "agglo_loop"
    /\ last_merge.merged
    /\ Len(new_pixel_clusters[last_merge.predator_cluster_id]) >= 4
    /\ \A c \in ImageCoords :
          new_cluster_lookup[c] = last_merge.predator_cluster_id

(***************************************************************************)
(* C4 as stated: the cluster with strictly more members absorbs the one    *)
(* with fewer, and with equal member counts the cluster Cb of the second   *)
(* coordinate is absorbed and the id of Ca survives.                       *)
(***************************************************************************)
MergeEffect ==
    /\ new_pixel_clusters[last_merge.prey_cluster_id] = <<>>
    /\ Len(new_pixel_clusters[last_merge.predator_cluster_id])
          = last_merge.a_len + last_merge.b_len
    /\ \A c \in Range(new_pixel_clusters[last_merge.predator_cluster_id]) :
          new_cluster_lookup[c] = last_merge.predator_cluster_id

LargerAbsorbs ==
    /\ last_merge.a_len > last_merge.b_len =>
          /\ last_merge.predator_cluster_id = last_merge.a_cluster
          /\ last_merge.prey_cluster_id = last_merge.b_cluster
    /\ last_merge.a_len < last_merge.b_len =>
          /\ last_merge.predator_cluster_id = last_merge.b_cluster
          /\ last_merge.prey_cluster_id = last_merge.a_cluster

C4_TieAbsorbsSecond ==
    (pc = "agglo_loop" /\ last_merge.merged) =>
        /\ MergeEffect
        /\ LargerAbsorbs
        /\ last_merge.a_len = last_merge.b_len =>
              /\ last_merge.predator_cluster_id = last_merge.a_cluster
              /\ last_merge.prey_cluster_id = last_merge.b_cluster

(***************************************************************************)
(* C4 amended: the cluster with strictly more members absorbs the one with *)
(* fewer, and with equal member counts the cluster Ca of the first         *)
(* coordinate is absorbed: its members move into Cb and the id of Cb       *)
(* survives.                                                               *)
(***************************************************************************)
C4_TieAbsorbsFirst ==
    (pc = "agglo_loop" /\ last_merge.merged) =>
        /\ MergeEffect
        /\ LargerAbsorbs
        /\ last_merge.a_len = last_merge.b_len =>
              /\ last_merge.predator_cluster_id = last_merge.b_cluster
              /\ last_merge.prey_cluster_id = last_merge.a_cluster

\* a tie between two clusters of two pixels each
C4_Witness ==
    /\ pc = "agglo_loop"
    /\ last_merge.merged
    /\ last_merge.a_len = 2
    /\ last_merge.b_len = 2
    /\ last_merge.prey_cluster_id = last_merge.a_cluster
    /\ new_pixel_clusters[last_merge.a_cluster] = <<>>
    /\ Len(new_pixel_clusters[last_merge.b_cluster]) = 4

\* reachability of the two unequal cases
C4_WitnessSmallerFirst ==
    pc = "agglo_loop" /\ last_merge.merged /\ last_merge.a_len < last_merge.b_len

C4_WitnessLargerFirst ==
    pc = "agglo_loop" /\ last_merge.merged /\ last_merge.a_len > last_merge.b_len

(***************************************************************************)
(* C5 as stated: for the 2x2 test image (red, blue, yellow, transparent)   *)
(* agglomerative with tolerance 1.0 finishes, with a single non-empty      *)
(* cluster that holds all four coordinates.                                *)
(***************************************************************************)
RunEnded == pc \in {"done", "panicked"}

C5_TestImageSingleCluster ==
    (/\ rgba_image = TestImage
     /\ clustering_alg = "Agglomerative"
     /\ agglo_tolerance = TolDen
     /\ RunEnded) =>
        /\ pc = "done"
        /\ \E id \in DOMAIN pixel_clusters :
              /\ NonEmptyClusters(pixel_clusters) = {id}
              /\ Range(pixel_clusters[id]) = ImageCoords

(***************************************************************************)
(* C6 as stated: with the smallest positive tolerance agglomerative merges *)
(* nothing, for any image: the result is one singleton cluster per pixel.  *)
(***************************************************************************)
C6_SmallestToleranceNoMerge ==
    (/\ clustering_alg = "Agglomerative"
     /\ agglo_tolerance = 1
     /\ pc = "done") =>
        /\ DOMAIN pixel_clusters = 0..(NumPixels(rgba_image) - 1)
        /\ \A id \in DOMAIN pixel_clusters : Len(pixel_clusters[id]) = 1

\* the case of the 2x2 test image: four singleton clusters
C6_TestImageFourSingletons ==
    (/\ rgba_image = TestImage
     /\ clustering_alg = "Agglomerative"
     /\ agglo_tolerance = 1
     /\ pc = "done") =>
        \A id \in 0..3 : Len(pixel_clusters[id]) = 1

(***************************************************************************)
(* C7 as stated: with tolerance 1 and a non-empty factor list the          *)
(* threshold computation succeeds and the threshold is the largest factor  *)
(* distance.                                                               *)
(***************************************************************************)
ThresholdStepTaken == pc \notin {"idle", "build_factors", "get_clusters"}

C7_ToleranceOneMaxDistance ==
    (/\ clustering_alg = "Agglomerative"
     /\ agglo_tolerance = TolDen
     /\ pixeldist_factors # <<>>
     /\ ThresholdStepTaken) =>
        /\ pc # "panicked"
        /\ \A i \in DOMAIN pixeldist_factors :
              pixeldist_factors[i].distance <= nth_percentile_dist
        /\ \E i \in DOMAIN pixeldist_factors :
              pixeldist_factors[i].distance = nth_percentile_dist

(***************************************************************************)
(* C8: with N factor distances sorted ascending and a tolerance t for      *)
(* which ceil(N*t) or floor(N*t) is below N, the threshold is              *)
(* sorted[ceil(N*t)] when ceil(N*t) < N and sorted[floor(N*t)] otherwise   *)
(* (0-based indices).                                                      *)
(***************************************************************************)
\* i = ceil(n * tol / TolDen), i = floor(n * tol / TolDen)
IsCeilOf(i, n, tol) == i * TolDen >= n * tol /\ (i - 1) * TolDen < n * tol
IsFloorOf(i, n, tol) == i * TolDen <= n * tol /\ (i + 1) * TolDen > n * tol

IsAscending(s) == \A i, j \in DOMAIN s : i <= j => s[i] <= s[j]

C8_ThresholdIndex ==
    (clustering_alg = "Agglomerative" /\ ThresholdStepTaken) =>
        LET sorted == SortedDists(pixeldist_factors)
            n == Len(pixeldist_factors)
            ce == CHOOSE i \in 0..(2 * n + 1) : IsCeilOf(i, n, agglo_tolerance)
            fl == CHOOSE i \in 0..(2 * n + 1) : IsFloorOf(i, n, agglo_tolerance)
        IN  /\ IsAscending(sorted)
            /\ Len(sorted) = n
            /\ (ce < n \/ fl < n) =>
                  /\ pc # "panicked"
                  /\ ce < n => nth_percentile_dist = sorted[ce + 1]
                  /\ ce >= n => nth_percentile_dist = sorted[fl + 1]

\* the fallback to floor(N*t) has been taken, with a threshold that differs
\* from the smallest distance
C8_Witness ==
    /\ pc = "agglo_init"
    /\ Len(pixeldist_factors) >= 3
    /\ CeilIndex(Len(pixeldist_factors), agglo_tolerance) >= Len(pixeldist_factors)
    /\ FloorIndex(Len(pixeldist_factors), agglo_tolerance) < Len(pixeldist_factors)
    /\ nth_percentile_dist > SortedDists(pixeldist_factors)[1]

\* the first index is in range and is not a whole multiple
C8_WitnessCeil ==
    /\ pc = "agglo_init"
    /\ CeilIndex(Len(pixeldist_factors), agglo_tolerance)
          > FloorIndex(Len(pixeldist_factors), agglo_tolerance)
    /\ CeilIndex(Len(pixeldist_factors), agglo_tolerance) < Len(pixeldist_factors)
    /\ nth_percentile_dist > SortedDists(pixeldist_factors)[1]

(***************************************************************************)
(* The distance function on its own: SpecDist draws two RGBA pixels and an *)
(* algorithm, and calls get_pixeldist once.                                *)
(***************************************************************************)
ChannelVals == {(U8Max * i) \div (NLevels - 1) : i \in 0..(NLevels - 1)}

Pixels == ChannelVals \X ChannelVals \X ChannelVals \X ChannelVals

\* the clustering pipeline at rest, on the test image
ClusteringIdle ==
    /\ rgba_image = TestImage
    /\ pixeldist_factors = <<>>
    /\ cluster_lookup = EmptyMap
    /\ pixel_clusters = EmptyMap
    /\ clustering_alg = "Agglomerative"
    /\ agglo_tolerance = TolDen
    /\ pc = "idle"
    /\ nth_percentile_dist = NoDist
    /\ new_cluster_lookup = EmptyMap
    /\ new_pixel_clusters = EmptyMap
    /\ factor_idx = 0
    /\ last_merge = NoMerge
    /\ max_k = 2
    /\ k = 0
    /\ centroids = NoCentroids
    /\ converged = FALSE
    /\ iteration_count = 0
    /\ wcss_history = <<>>
    /\ last_pass = NoPass
    /\ par_results = <<>>
    /\ MatrixIdle
    /\ k_partitions = <<>>

InitDist ==
    /\ pixel_a \in Pixels
    /\ pixel_b \in Pixels
    /\ pixeldist_alg \in PixeldistAlg
    /\ dist_result = NoDist
    /\ dist_pc = "call"
    /\ CallsIdle
    /\ ClusteringIdle

CallEuclidean ==
    /\ dist_pc = "call"
    /\ pixeldist_alg = "Euclidean"
    /\ dist_result' = get_pixeldist(pixel_a, pixel_b, pixeldist_alg)
    /\ dist_pc' = "returned"
    /\ UNCHANGED <<pixel_a, pixel_b, callVars, matrixVars, par_results,
                   imageVars, optionVars, pc,
                   aggloVars, kmeansVars>>

CallRedmean ==
    /\ dist_pc = "call"
    /\ pixeldist_alg = "Redmean"
    /\ dist_result' = get_pixeldist(pixel_a, pixel_b, pixeldist_alg)
    /\ dist_pc' = "returned"
    /\ UNCHANGED <<pixel_a, pixel_b, callVars, matrixVars, par_results,
                   imageVars, optionVars, pc,
                   aggloVars, kmeansVars>>

NextDist == CallEuclidean \/ CallRedmean

SpecDist == InitDist /\ [][NextDist]_vars

(***************************************************************************)
(* C9: get_pixeldist returns d with 0 <= d <= 1 for every pixel pair and   *)
(* both algorithms, the alpha-only branch included; d = 1 for opaque white *)
(* against opaque black under both algorithms and for alpha 255 against    *)
(* alpha 0.                                                                *)
(***************************************************************************)
C9_DistanceBounds ==
    dist_pc = "returned" =>
        /\ 0 <= dist_result
        /\ dist_result <= DistDen
        /\ (pixel_a = WHITE /\ pixel_b = BLACK) => dist_result = DistDen
        /\ (pixel_a[4] = 255 /\ pixel_b[4] = 0) => dist_result = DistDen

C9_Witness ==
    /\ dist_pc = "returned"
    /\ pixeldist_alg = "Redmean"
    /\ pixel_a = WHITE
    /\ pixel_b = BLACK
    /\ dist_result = DistDen

(***************************************************************************)
(* C10: get_pixeldist is symmetric, d(a,b) = d(b,a), for both algorithms,  *)
(* and d(a,a) = 0 for every pixel a with non-zero alpha.                   *)
(***************************************************************************)
C10_SymmetricZeroSelf ==
    dist_pc = "returned" =>
        /\ dist_result = get_pixeldist(pixel_b, pixel_a, pixeldist_alg)
        /\ (pixel_a = pixel_b /\ pixel_a[4] # 0) => dist_result = 0

C10_Witness ==
    /\ dist_pc = "returned"
    /\ pixeldist_alg = "Redmean"
    /\ pixel_a[1] # pixel_b[1]
    /\ pixel_a[3] # pixel_b[3]
    /\ pixel_a[4] # 0
    /\ pixel_b[4] # 0
    /\ dist_result > 0
    /\ dist_result = get_pixeldist(pixel_b, pixel_a, pixeldist_alg)

(***************************************************************************)
(* C11: whenever exactly one of the two pixels is fully transparent, or    *)
(* the two pixels differ in alpha, euclidean and redmean return the        *)
(* alpha-only distance |Aa - Ab| / 255 and ignore the colour channels; the *)
(* colour distance is used only otherwise.                                 *)
(***************************************************************************)
ExactlyOneTransparent == (pixel_a[4] = 0) # (pixel_b[4] = 0)

AlphaDiffers == pixel_a[4] # pixel_b[4]

\* the colour distance of the two algorithms, alpha left out
ColourDistance ==
    LET dr == Sq(pixel_a[1] - pixel_b[1])
        dg == Sq(pixel_a[2] - pixel_b[2])
        db == Sq(pixel_a[3] - pixel_b[3])
        rsum == pixel_a[1] + pixel_b[1]
    IN  IF pixeldist_alg = "Euclidean"
        THEN (dr + dg + db) * (DistDen \div MaxDiffEuclidean)
        ELSE (1020 + rsum) * dr + 2040 * dg + (1530 - rsum) * db

C11_AlphaOnlyWhenAlphaDiffers ==
    (dist_pc = "returned" /\ (ExactlyOneTransparent \/ AlphaDiffers)) =>
        dist_result = alpha_only_dist(pixel_a[4], pixel_b[4])

\* what the code does: the alpha-only distance is returned exactly when at
\* least one of the two alphas is 0, two transparent pixels included, and the
\* colour distance whenever both alphas are non-zero, equal or not (holds)
AlphaOnlyIffSomeAlphaZero ==
    dist_pc = "returned" =>
        IF pixel_a[4] = 0 \/ pixel_b[4] = 0
        THEN dist_result = alpha_only_dist(pixel_a[4], pixel_b[4])
        ELSE dist_result = ColourDistance

(***************************************************************************)
(* Properties of the k_means run (SpecKMeans).                             *)
(*                                                                         *)
(* The silhouette of a pixel p of cluster I, over the RGB distance of      *)
(* k_means: a = mean distance of p to the other members of I, b = the      *)
(* smallest mean distance of p to the members of another non-empty         *)
(* cluster, s = (b - a) / max(a, b), and s = 0 for the only member of a    *)
(* cluster.  Values are kept in units of 1/SilScale.                       *)
(***************************************************************************)
SilScale == 1000

\* sum of the distances of coordinate c to the members of a list
RECURSIVE SumDistTo(_, _)
SumDistTo(c, members) ==
    IF members = <<>>
    THEN 0
    ELSE SqrtScaled(euclidean_dist(Rgb(rgba_image.pixels[c]),
                                   Rgb(rgba_image.pixels[Head(members)])))
            + SumDistTo(c, Tail(members))

\* (b - a) / max(a, b) for a = sum_a / n_a and b = sum_b / n_b
SilhouetteRatio(sum_a, n_a, sum_b, n_b) ==
    LET a_x == sum_a * n_b
        b_x == sum_b * n_a
        larger == IF a_x > b_x THEN a_x ELSE b_x
    IN  IF larger = 0 THEN 0 ELSE ((b_x - a_x) * SilScale) \div larger

SetMin(S) == CHOOSE x \in S : \A y \in S : x <= y

\* s of the coordinate c; the ratio grows with b, so the smallest b gives the
\* smallest ratio
SilhouetteOf(c, lookup, clusters) ==
    LET own == clusters[lookup[c]]
        others == {j \in DOMAIN clusters : j # lookup[c] /\ clusters[j] # <<>>}
    IN  IF Len(own) = 1 \/ others = {}
        THEN 0
        ELSE SetMin({SilhouetteRatio(SumDistTo(c, own), Len(own) - 1,
                                     SumDistTo(c, clusters[j]), Len(clusters[j])) :
                        j \in others})

RECURSIVE SilhouetteSum(_, _, _)
SilhouetteSum(i, lookup, clusters) ==
    IF i >= NumPixels(rgba_image)
    THEN 0
    ELSE SilhouetteOf(RasterCoord(rgba_image, i), lookup, clusters)
            + SilhouetteSum(i + 1, lookup, clusters)

\* mean silhouette of a partition of the image, times the number of pixels
MeanSilhouette(p) == SilhouetteSum(0, p.cluster_lookup, p.pixel_clusters)

KMeansReturned == pc = "done" /\ clustering_alg = "KMeans"

Returned == [cluster_lookup |-> cluster_lookup, pixel_clusters |-> pixel_clusters]

IsCandidate(p, q) ==
    p.cluster_lookup = q.cluster_lookup /\ p.pixel_clusters = q.pixel_clusters

(***************************************************************************)
(* C12: k_means returns, among the converged partitions of the candidates  *)
(* k = 2..max_k, the partition with the highest mean silhouette score; it  *)
(* is not simply the partition of the last candidate k.  (A candidate      *)
(* counts as better only when its score is higher by more than the         *)
(* rounding of the model's square roots, 2/SilScale per pixel.)            *)
(***************************************************************************)
C12_ReturnsBestSilhouette ==
    (KMeansReturned /\ k_partitions # <<>>) =>
        /\ \E i \in DOMAIN k_partitions : IsCandidate(k_partitions[i], Returned)
        /\ \A i \in DOMAIN k_partitions :
              MeanSilhouette(k_partitions[i])
                 <= MeanSilhouette(Returned) + 2 * NumPixels(rgba_image)

\* what the code does: the maps of the last candidate are returned (holds)
ReturnsLastCandidate ==
    (KMeansReturned /\ k_partitions # <<>>) =>
        IsCandidate(k_partitions[Len(k_partitions)], Returned)

(***************************************************************************)
(* C13: if max_k < 2, or the image has fewer pixels than max_k, k_means    *)
(* signals a configuration error to the caller; it neither loops nor       *)
(* returns normally with an (empty or partial) partition written to the    *)
(* image.                                                                  *)
(***************************************************************************)
InvalidKMeansConfiguration ==
    /\ clustering_alg = "KMeans"
    /\ (max_k < 2 \/ NumPixels(rgba_image) < max_k)

C13_ConfigurationErrorSignalled ==
    InvalidKMeansConfiguration => (pc # "kmeans_lloyd" /\ pc # "done")

\* the second half of the condition on its own: more candidates than pixels,
\* with a max_k the configuration accepts (violated as well)
TooFewPixelsNeverReturns ==
    (clustering_alg = "KMeans" /\ max_k >= 2 /\ NumPixels(rgba_image) < max_k)
        => pc # "done"

(***************************************************************************)
(* C14: for every k, k-means seeding never selects the same pixel          *)
(* coordinate twice: the k seeded centroids have pairwise distinct         *)
(* coordinates, for every image and every random first pick.               *)
(***************************************************************************)
JustSeeded == pc = "kmeans_lloyd" /\ iteration_count = 0

DistinctCoordinates(cents) ==
    \A i, j \in DOMAIN cents : i # j => cents[i][1] # cents[j][1]

C14_SeedsPairwiseDistinct ==
    JustSeeded => (Len(centroids) = k /\ DistinctCoordinates(centroids))

DistinctColours(img) == {Rgb(img.pixels[c]) : c \in DOMAIN img.pixels}

\* the same with at least k pixels in the image (violated as well)
SeedsDistinctWithEnoughPixels ==
    (JustSeeded /\ NumPixels(rgba_image) >= k) => DistinctCoordinates(centroids)

\* what the code does: the seeds are distinct when the image has at least k
\* distinct RGB colours (holds)
SeedsDistinctWithEnoughColours ==
    (JustSeeded /\ Cardinality(DistinctColours(rgba_image)) >= k)
        => DistinctCoordinates(centroids)

(***************************************************************************)
(* C15: at every point of a k_means run (after seeding and after every     *)
(* recentre step), each centroid's coordinate lies inside the image, its   *)
(* stored RGB triple equals the RGB of the image pixel at that coordinate, *)
(* and that coordinate is assigned to the centroid's own cluster (cluster  *)
(* id = the centroid's index).                                             *)
(***************************************************************************)
CentroidIsRealPixel(i) ==
    /\ centroids[i][1] \in ImageCoords
    /\ centroids[i][2] = Rgb(rgba_image.pixels[centroids[i][1]])

CentroidInOwnCluster(i) ==
    /\ centroids[i][1] \in DOMAIN new_cluster_lookup
    /\ new_cluster_lookup[centroids[i][1]] = i - 1

C15_CentroidRealism ==
    pc = "kmeans_lloyd" =>
        \A i \in DOMAIN centroids :
            CentroidIsRealPixel(i) /\ CentroidInOwnCluster(i)

\* what the code does: centroid realism holds whenever the image has at least
\* k distinct RGB colours (holds)
CentroidRealismWithEnoughColours ==
    (pc = "kmeans_lloyd" /\ Cardinality(DistinctColours(rgba_image)) >= k) =>
        \A i \in DOMAIN centroids :
            CentroidIsRealPixel(i) /\ CentroidInOwnCluster(i)

\* a recentre step on such an image has happened and moved a centroid
CentroidRealismReached ==
    /\ pc = "kmeans_lloyd"
    /\ iteration_count >= 1
    /\ k = 3
    /\ Cardinality(DistinctColours(rgba_image)) >= k
    /\ \E i \in DOMAIN centroids : centroids[i][1] # <<0, 0>>

(***************************************************************************)
(* C16: for any fixed first-centroid pick and any image with at least k    *)
(* distinct colours, the Lloyd loop of k_means for that k eventually       *)
(* terminates (converged becomes true), either because the assignment      *)
(* equals the previous one or because the 30-cycle oscillation rule fires; *)
(* no deterministic assignment cycle makes it loop forever.                *)
(*                                                                         *)
(* A pass is a function of the centroids alone, so a run whose centroids   *)
(* recur after p passes repeats those p passes for ever.  It never ends    *)
(* when no two successive assignments of the cycle are equal and the       *)
(* within-cluster sums of the cycle do not alternate between two different *)
(* values (the only histories the 30-cycle rule accepts).                  *)
(***************************************************************************)
MaxPeriod == 4

\* the passes 1..n that follow the centroids cents
RECURSIVE PassesFrom(_, _, _)
PassesFrom(img, cents, n) ==
    IF n = 0
    THEN <<>>
    ELSE LET pass == LloydPass(img, cents)
         IN  <<pass>> \o PassesFrom(img, pass.centroids, n - 1)

\* passes[i + 1] for i in 1..p, the cycle closed
AfterInCycle(passes, i) == passes[(i % Len(passes)) + 1]

AlternatesBetweenTwo(passes) ==
    /\ \A i \in DOMAIN passes :
          AfterInCycle(passes, i + 1).new_wcss = passes[i].new_wcss
    /\ \E i \in DOMAIN passes :
          AfterInCycle(passes, i).new_wcss # passes[i].new_wcss

EndlessCycle(img, cents, p) ==
    \E passes \in {PassesFrom(img, cents, p)} :
        /\ passes[p].centroids = cents
        /\ \A i \in 1..p :
              ~SameLookup(img, passes[i].cluster_lookup,
                          AfterInCycle(passes, i).cluster_lookup)
        /\ ~AlternatesBetweenTwo(passes)

C16_LloydLoopTerminates ==
    (/\ pc = "kmeans_lloyd"
     /\ ~converged
     /\ Cardinality(DistinctColours(rgba_image)) >= k)
        => \A p \in 1..MaxPeriod : ~EndlessCycle(rgba_image, centroids, p)

\* the run on the cycle goes on: pass after pass without converging, past the
\* length of history the 30-cycle rule asks for
EndlessCycleRuns ==
    /\ pc = "kmeans_lloyd"
    /\ ~converged
    /\ iteration_count > MAX_CYCLES + 1
    /\ \E p \in 1..MaxPeriod : EndlessCycle(rgba_image, centroids, p)

(***************************************************************************)
(* lib.rs: MatchEnumAsStr, and its caller get_cli_arg                      *)
(* (persistence/options.rs).  A string is a sequence of characters; the    *)
(* enum is the Colour of the documentation, a value standing for its Debug *)
(* name.                                                                   *)
(***************************************************************************)
UpperCase == <<"B", "D", "E", "G", "L", "N", "R", "U">>
LowerCase == <<"b", "d", "e", "g", "l", "n", "r", "u">>

\* char::to_lowercase on the letters of the model
char_to_lowercase(c) ==
    IF \E i \in DOMAIN UpperCase : UpperCase[i] = c
    THEN LowerCase[CHOOSE i \in DOMAIN UpperCase : UpperCase[i] = c]
    ELSE c

char_to_uppercase(c) ==
    IF \E i \in DOMAIN LowerCase : LowerCase[i] = c
    THEN UpperCase[CHOOSE i \in DOMAIN LowerCase : LowerCase[i] = c]
    ELSE c

\* str::to_lowercase
to_lowercase(s) == [i \in DOMAIN s |-> char_to_lowercase(s[i])]

\* format!("{:?}", Colour::Red) and so on
ColourRed == <<"R", "e", "d">>
ColourBlue == <<"B", "l", "u", "e">>
ColourGreen == <<"G", "r", "e", "e", "n">>

\* Colour::iter(), in declaration order
Colour == <<ColourRed, ColourBlue, ColourGreen>>

\* format!("{:?}", &self).to_lowercase() == string
match_enum_as_str(self, str) == to_lowercase(self) = str

\* get_cli_arg for a given value: the first option that matches, or None
get_cli_arg(val) ==
    IF \E i \in DOMAIN Colour : match_enum_as_str(Colour[i], val)
    THEN <<Colour[CHOOSE i \in DOMAIN Colour :
                /\ match_enum_as_str(Colour[i], val)
                /\ \A j \in 1..(i - 1) : ~match_enum_as_str(Colour[j], val)]>>
    ELSE <<>>

\* every spelling of a name in upper and lower case letters
CaseVariants(name) ==
    {[i \in DOMAIN name |->
        IF i \in S THEN char_to_uppercase(name[i]) ELSE char_to_lowercase(name[i])] :
            S \in SUBSET (DOMAIN name)}

\* the strings given: the spellings of the three names, and strings that are
\* no name at all (empty, a prefix, an extension, another word)
Strings ==
    UNION {CaseVariants(Colour[i]) : i \in DOMAIN Colour}
        \cup {<<>>, <<"r", "e">>, <<"r", "e", "d", "d">>,
              <<"y", "e", "l", "l", "o", "w">>}

InitMatch ==
    /\ pixel_a = WHITE
    /\ pixel_b = WHITE
    /\ pixeldist_alg = "Euclidean"
    /\ dist_result = NoDist
    /\ dist_pc = "call"
    /\ sim_result = NoSim
    /\ enum_value \in Range(Colour)
    /\ string \in Strings
    /\ match_result = FALSE
    /\ cli_arg = <<>>
    /\ ClusteringIdle

MatchEnumAsStr ==
    /\ dist_pc = "call"
    /\ match_result' = match_enum_as_str(enum_value, string)
    /\ dist_pc' = "match_returned"
    /\ UNCHANGED <<pixel_a, pixel_b, dist_result, par_results, matrixVars,
                   sim_result, enum_value, string,
                   cli_arg, imageVars, optionVars, pc, aggloVars, kmeansVars>>

GetCliArg ==
    /\ dist_pc = "call"
    /\ cli_arg' = get_cli_arg(string)
    /\ dist_pc' = "cli_returned"
    /\ UNCHANGED <<pixel_a, pixel_b, dist_result, par_results, matrixVars,
                   sim_result, enum_value, string,
                   match_result, imageVars, optionVars, pc, aggloVars,
                   kmeansVars>>

NextMatch == MatchEnumAsStr \/ GetCliArg

SpecMatch == InitMatch /\ [][NextMatch]_vars

(***************************************************************************)
(* C17: match_enum_as_str is case-insensitive: it returns true exactly     *)
(* when the enum variant's name and the given string are equal ignoring    *)
(* letter case (so "red", "Red" and "RED" all match Colour::Red), and      *)
(* false for every other string.                                           *)
(***************************************************************************)
EqualIgnoringCase(s, t) ==
    /\ Len(s) = Len(t)
    /\ \A i \in DOMAIN s :
          \/ s[i] = t[i]
          \/ char_to_uppercase(s[i]) = t[i]
          \/ s[i] = char_to_uppercase(t[i])

C17_MatchIgnoresCase ==
    dist_pc = "match_returned" =>
        (match_result <=> EqualIgnoringCase(enum_value, string))

\* what the code does: only the all-lower-case spelling matches (holds)
MatchesLowerCaseSpellingOnly ==
    dist_pc = "match_returned" =>
        (match_result <=>
            /\ EqualIgnoringCase(enum_value, string)
            /\ \A i \in DOMAIN string :
                  \A j \in DOMAIN UpperCase : string[i] # UpperCase[j])

\* a given value in any other spelling selects no option
CliArgUpperCaseIsNone ==
    /\ dist_pc = "cli_returned"
    /\ string = ColourRed
    /\ cli_arg = <<>>

(***************************************************************************)
(* similarity/algs.rs: avg_colour_sim.  The value returned is              *)
(* (sqrt(n) / max_dist - 0.5) * -2 for the integer n = sum of the squared  *)
(* channel differences; the model keeps n.  The value falls as n grows:    *)
(* it is 1.0 exactly when n = 0, -1.0 exactly when n = max_dist^2 (the     *)
(* f32 square root of a perfect square is exact), and lies in [-1, 1]      *)
(* exactly when 0 <= n <= max_dist^2.                                      *)
(***************************************************************************)
max_dist == 510

delta_sq(a, b) == Sq(a - b)

\* a plausible slip: the alpha channel left out of the sum
avg_colour_sim_rgb_only(r_a, g_a, b_a, a_a, r_b, g_b, b_b, a_b) ==
    delta_sq(r_a, r_b) + delta_sq(g_a, g_b) + delta_sq(b_a, b_b)

avg_colour_sim(r_a, g_a, b_a, a_a, r_b, g_b, b_b, a_b) ==
    delta_sq(r_a, r_b) + delta_sq(g_a, g_b) + delta_sq(b_a, b_b)
        + delta_sq(a_a, a_b)

InitSim ==
    /\ pixel_a \in Pixels
    /\ pixel_b \in Pixels
    /\ pixeldist_alg = "Euclidean"
    /\ dist_result = NoDist
    /\ dist_pc = "call"
    /\ CallsIdle
    /\ ClusteringIdle

CallAvgColourSim ==
    /\ dist_pc = "call"
    /\ sim_result' = avg_colour_sim(pixel_a[1], pixel_a[2], pixel_a[3], pixel_a[4],
                                    pixel_b[1], pixel_b[2], pixel_b[3], pixel_b[4])
    /\ dist_pc' = "sim_returned"
    /\ UNCHANGED <<pixel_a, pixel_b, dist_result, par_results, matrixVars,
                   enum_value, string,
                   match_result, cli_arg, imageVars, optionVars, pc, aggloVars,
                   kmeansVars>>

NextSim == CallAvgColourSim

SpecSim == InitSim /\ [][NextSim]_vars

(***************************************************************************)
(* C18: avg_colour_sim returns exactly 1.0 when the two RGBA colours are   *)
(* identical, exactly -1.0 when all four channels differ by 255, and for   *)
(* all 8-bit inputs a value in [-1, 1] equal to                            *)
(* (sqrt(dR^2+dG^2+dB^2+dA^2)/510 - 0.5) * -2, symmetric in its two        *)
(* colours.                                                                *)
(***************************************************************************)
AbsDiff(a, b) == IF a >= b THEN a - b ELSE b - a

AllChannelsOpposite ==
    \A ch \in 1..4 : AbsDiff(pixel_a[ch], pixel_b[ch]) = U8Max

C18_AvgColourSim ==
    dist_pc = "sim_returned" =>
        /\ (pixel_a = pixel_b) => sim_result = 0
        /\ AllChannelsOpposite => sim_result = 510 * 510
        /\ 0 <= sim_result
        /\ sim_result <= 510 * 510
        /\ sim_result = AbsDiff(pixel_a[1], pixel_b[1]) * AbsDiff(pixel_a[1], pixel_b[1])
                      + AbsDiff(pixel_a[2], pixel_b[2]) * AbsDiff(pixel_a[2], pixel_b[2])
                      + AbsDiff(pixel_a[3], pixel_b[3]) * AbsDiff(pixel_a[3], pixel_b[3])
                      + AbsDiff(pixel_a[4], pixel_b[4]) * AbsDiff(pixel_a[4], pixel_b[4])
        /\ sim_result = avg_colour_sim(pixel_b[1], pixel_b[2], pixel_b[3], pixel_b[4],
                                       pixel_a[1], pixel_a[2], pixel_a[3], pixel_a[4])

\* opposite colours have been compared and the least value came back
C18_Witness ==
    /\ dist_pc = "sim_returned"
    /\ pixel_a = WHITE
    /\ pixel_b = <<0, 0, 0, 0>>
    /\ sim_result = Sq(max_dist)

\* two different colours that are not opposite: a value strictly inside
C18_WitnessInside ==
    /\ dist_pc = "sim_returned"
    /\ pixel_a # pixel_b
    /\ ~AllChannelsOpposite
    /\ 0 < sim_result
    /\ sim_result < Sq(max_dist)

(***************************************************************************)
(* C19: when agglomerative processes a factor (a,b), a merge happens if    *)
(* and only if cluster_lookup[a] != cluster_lookup[b] and the factor's     *)
(* distance is strictly less than the threshold; when no merge happens     *)
(* both maps are left unchanged, and when a merge happens only the two     *)
(* clusters of a and b and the cluster_lookup entries of the absorbed      *)
(* cluster's members change.                                               *)
(***************************************************************************)
FactorProcessed ==
    /\ pc = "agglo_loop"
    /\ factor_idx <= Len(pixeldist_factors)
    /\ factor_idx' = factor_idx + 1

MapsUnchanged ==
    /\ new_cluster_lookup' = new_cluster_lookup
    /\ new_pixel_clusters' = new_pixel_clusters

\* the maps changed, and only in the clusters ca and cb and in the lookup
\* entries of the members of the one of them that was emptied
MergedOnly(ca, cb) ==
    /\ new_pixel_clusters' # new_pixel_clusters
    /\ new_cluster_lookup' # new_cluster_lookup
    /\ DOMAIN new_pixel_clusters' = DOMAIN new_pixel_clusters
    /\ DOMAIN new_cluster_lookup' = DOMAIN new_cluster_lookup
    /\ \A id \in DOMAIN new_pixel_clusters :
          id \notin {ca, cb} => new_pixel_clusters'[id] = new_pixel_clusters[id]
    /\ \E absorbed \in {ca, cb} :
          /\ new_pixel_clusters'[absorbed] = <<>>
          /\ \A c \in DOMAIN new_cluster_lookup :
                IF c \in Range(new_pixel_clusters[absorbed])
                THEN new_cluster_lookup'[c] \in {ca, cb} \ {absorbed}
                ELSE new_cluster_lookup'[c] = new_cluster_lookup[c]

C19_MergeIffAndFrame ==
    [][FactorProcessed =>
        LET factor == pixeldist_factors[factor_idx]
            ca == new_cluster_lookup[factor.a_coords]
            cb == new_cluster_lookup[factor.b_coords]
        IN  IF ca # cb /\ factor.distance < nth_percentile_dist
            THEN MergedOnly(ca, cb)
            ELSE MapsUnchanged]_vars

\* a merge has happened while a third cluster, not part of it, has members
C19_Witness ==
    /\ pc = "agglo_loop"
    /\ last_merge.merged
    /\ \E id \in DOMAIN new_pixel_clusters :
          /\ id \notin {last_merge.a_cluster, last_merge.b_cluster}
          /\ new_pixel_clusters[id] # <<>>

\* a factor between two different clusters was left alone because its
\* distance equals the threshold
C19_WitnessAtThreshold ==
    /\ pc = "agglo_loop"
    /\ factor_idx > 1
    /\ ~last_merge.merged
    /\ LET factor == pixeldist_factors[factor_idx - 1]
       IN  /\ new_cluster_lookup[factor.a_coords] # new_cluster_lookup[factor.b_coords]
           /\ factor.distance = nth_percentile_dist

(***************************************************************************)
(* C20: in an agglomerative run, once a cluster id has been absorbed, no   *)
(* coordinate is ever mapped to that id again by cluster_lookup and its    *)
(* member list stays empty until the run ends; the absorbed id is never    *)
(* chosen as either operand of a later merge.                              *)
(***************************************************************************)
\* the ids absorbed before: every id starts with one member, and a list is
\* emptied only by being absorbed
Absorbed == {id \in DOMAIN new_pixel_clusters : new_pixel_clusters[id] = <<>>}

\* the ids absorbed by now: those absorbed before, and the one the step absorbs
AbsorbedByStep ==
    Absorbed \cup (IF FactorProcessed /\ last_merge'.merged
                   THEN {last_merge'.prey_cluster_id}
                   ELSE {})

C20_AbsorbedIdUnused ==
    [][pc = "agglo_loop" =>
        \A id \in AbsorbedByStep :
            /\ new_pixel_clusters'[id] = <<>>
            /\ \A c \in DOMAIN new_cluster_lookup' : new_cluster_lookup'[c] # id
            /\ (FactorProcessed /\ last_merge'.merged /\ id \in Absorbed) =>
                  id \notin {last_merge'.a_cluster, last_merge'.b_cluster}
            /\ pc' = "done" =>
                  /\ pixel_clusters'[id] = <<>>
                  /\ \A c \in DOMAIN cluster_lookup' : cluster_lookup'[c] # id]_vars

\* an id absorbed earlier has stayed out of a later merge
C20_Witness ==
    /\ pc = "agglo_loop"
    /\ last_merge.merged
    /\ \E id \in Absorbed :
          /\ id # last_merge.prey_cluster_id
          /\ \A c \in DOMAIN new_cluster_lookup : new_cluster_lookup[c] # id

\* the run has ended with an absorbed id in the maps of the image
C20_WitnessDone ==
    /\ pc = "done"
    /\ clustering_alg = "Agglomerative"
    /\ \E id \in DOMAIN pixel_clusters : pixel_clusters[id] = <<>>

(***************************************************************************)
(* C21: in k-means seeding, each centroid after the first is a pixel whose *)
(* distance to its nearest already-chosen centroid is maximal over all     *)
(* pixels of the image (the first such pixel in raster order on ties), so  *)
(* that the whole seed set is determined by the image and the first random *)
(* pick.                                                                   *)
(***************************************************************************)
RasterIndex(c) == c[2] * rgba_image.width + c[1]

\* distance of the pixel at c to the nearest of the first n centroids
NearestSeedDist(c, n) ==
    SetMin({euclidean_dist(Rgb(rgba_image.pixels[c]), centroids[j][2]) :
                j \in 1..n})

\* c is at maximal distance from the first n centroids
IsFarthest(c, n) ==
    \A d \in ImageCoords : NearestSeedDist(d, n) <= NearestSeedDist(c, n)

\* c is the first pixel in raster order at maximal distance
IsFirstFarthest(c, n) ==
    /\ c \in ImageCoords
    /\ IsFarthest(c, n)
    /\ \A d \in ImageCoords :
          IsFarthest(d, n) => RasterIndex(c) <= RasterIndex(d)

C21_SeedsAreFarthestPixels ==
    JustSeeded =>
        /\ Len(centroids) = k
        /\ \A i \in 2..Len(centroids) :
              /\ IsFirstFarthest(centroids[i][1], i - 1)
              /\ NearestSeedDist(centroids[i][1], i - 1) > 0 =>
                    centroids[i][2] = Rgb(rgba_image.pixels[centroids[i][1]])

\* the third seed was chosen among several pixels at the same, positive,
\* maximal distance
C21_Witness ==
    /\ JustSeeded
    /\ k = 3
    /\ NearestSeedDist(centroids[3][1], 2) > 0
    /\ \E d \in ImageCoords :
          /\ d # centroids[3][1]
          /\ IsFarthest(d, 2)

(***************************************************************************)
(* C22: in the k-means assign step, every pixel is assigned to the cluster *)
(* id equal to the index of a centroid at minimum distance from the        *)
(* pixel's RGB, and when several centroids are at the same minimum         *)
(* distance the one with the lowest index in the centroid list is chosen.  *)
(***************************************************************************)
\* a pass of the Lloyd loop has run for this k
PassDone == pc = "kmeans_lloyd" /\ iteration_count >= 1

\* distance of the pixel at c to the j-th centroid the pass started from
DistToCentroid(c, j) ==
    euclidean_dist(Rgb(rgba_image.pixels[c]), last_pass.centroids[j][2])

\* j is the lowest index of a centroid nearest to the pixel at c
IsFirstNearest(c, j) ==
    /\ j \in DOMAIN last_pass.centroids
    /\ \A i \in DOMAIN last_pass.centroids :
          DistToCentroid(c, j) <= DistToCentroid(c, i)
    /\ \A i \in 1..(j - 1) : DistToCentroid(c, j) < DistToCentroid(c, i)

C22_AssignedToFirstNearest ==
    PassDone =>
        \A c \in ImageCoords :
            /\ c \in DOMAIN new_cluster_lookup
            /\ IsFirstNearest(c, new_cluster_lookup[c] + 1)

\* a pixel was as near to a later centroid of another colour as to the one it
\* was assigned to
C22_Witness ==
    /\ PassDone
    /\ \E c \in ImageCoords :
          \E i \in DOMAIN last_pass.centroids :
              /\ i > new_cluster_lookup[c] + 1
              /\ DistToCentroid(c, i) = DistToCentroid(c, new_cluster_lookup[c] + 1)
              /\ last_pass.centroids[i][2]
                    # last_pass.centroids[new_cluster_lookup[c] + 1][2]

(***************************************************************************)
(* C23: in the k-means recentre step, the new centroid of each cluster is  *)
(* the member pixel of that cluster whose RGB is closest to the            *)
(* channel-wise mean RGB of the cluster's members (no other member is      *)
(* strictly closer to the exact mean).                                     *)
(***************************************************************************)
\* Len(members)^2 times the squared distance of rgb to the exact mean of the
\* members: sum over the channels of (n * rgb[ch] - sum[ch])^2
ExactMeanDist(rgb, members) ==
    LET n == Len(members)
        d(ch) == n * rgb[ch] - SumChannel(rgba_image, members, ch)
    IN  d(1) * d(1) + d(2) * d(2) + d(3) * d(3)

\* the centroid is a member and no member is strictly closer to the exact mean
ClosestToExactMean(centroid, members) ==
    /\ \E i \in DOMAIN members : members[i] = centroid[1]
    /\ \A i \in DOMAIN members :
          ExactMeanDist(centroid[2], members)
              <= ExactMeanDist(Rgb(rgba_image.pixels[members[i]]), members)

\* the member list of the j-th centroid's cluster, empty when there is none
MembersOf(j) ==
    IF (j - 1) \in DOMAIN new_pixel_clusters
    THEN new_pixel_clusters[j - 1]
    ELSE <<>>

C23_CentroidClosestToMean ==
    PassDone =>
        \A j \in DOMAIN centroids :
            MembersOf(j) # <<>> => ClosestToExactMean(centroids[j], MembersOf(j))

\* the same on images with at least k distinct RGB colours, where no centroid
\* is repeated (violated as well: the mean is truncated before the comparison)
ClosestToMeanWithEnoughColours ==
    (PassDone /\ Cardinality(DistinctColours(rgba_image)) >= k) =>
        \A j \in DOMAIN centroids :
            MembersOf(j) # <<>> => ClosestToExactMean(centroids[j], MembersOf(j))

\* what the code does: the new centroid is the first member closest to the
\* truncated mean <<r_mean as u8, g_mean as u8, b_mean as u8>> (holds)
ClosestToTruncatedMean ==
    (PassDone /\ Cardinality(DistinctColours(rgba_image)) >= k) =>
        \A j \in DOMAIN centroids :
            LET members == MembersOf(j)
                mean == MeanRgb(rgba_image, members)
            IN  /\ members # <<>>
                /\ \E i \in DOMAIN members : members[i] = centroids[j][1]
                /\ \A i \in DOMAIN members :
                      euclidean_dist(centroids[j][2], mean)
                          <= euclidean_dist(Rgb(rgba_image.pixels[members[i]]), mean)

(***************************************************************************)
(* C24: after each Lloyd iteration, the assignment-stability check sets    *)
(* converged to true if and only if the cluster_lookup produced by this    *)
(* iteration gives every image coordinate the same cluster id as the       *)
(* cluster_lookup held before the iteration (coordinates present in one    *)
(* and missing in the other count as different).                           *)
(***************************************************************************)
\* the lookup of this pass and the one held before it agree on c
AgreeOn(c) ==
    LET old == last_pass.old_cluster_lookup
    IN  /\ (c \in DOMAIN old) <=> (c \in DOMAIN new_cluster_lookup)
        /\ (c \in DOMAIN old /\ c \in DOMAIN new_cluster_lookup) =>
               old[c] = new_cluster_lookup[c]

LookupsAgree == \A c \in ImageCoords : AgreeOn(c)

\* the cycle check, which runs after the stability check, has overwritten
\* converged
OscillationGuardFired == PassDone /\ converged /\ ~LookupsAgree

\* the value the stability check gave converged is the one seen after the
\* pass unless the cycle check has overwritten it with true
C24_ConvergedIffLookupsAgree ==
    PassDone =>
        /\ LookupsAgree => converged
        /\ (converged /\ ~StuckInCycle(wcss_history)) => LookupsAgree

\* a pass after the first left every pixel where it was and ended the loop
C24_Witness ==
    /\ PassDone
    /\ iteration_count >= 2
    /\ converged
    /\ LookupsAgree

\* a pass after the first moved a pixel and the loop goes on
C24_WitnessMoved ==
    /\ PassDone
    /\ iteration_count >= 2
    /\ ~converged
    /\ \E c \in ImageCoords :
          /\ c \in DOMAIN last_pass.old_cluster_lookup
          /\ last_pass.old_cluster_lookup[c] # new_cluster_lookup[c]

(***************************************************************************)
(* C25: the k-means oscillation guard declares convergence at iteration n  *)
(* only if n >= 30, the WCSS of iteration n is strictly lower than that of *)
(* iteration n-1, and the last 30 WCSS values alternate between exactly    *)
(* two values (all values at even offsets from the end are equal, all at   *)
(* odd offsets are equal); it never fires before 30 iterations or on the   *)
(* higher-WCSS step of a 2-cycle.                                          *)
(***************************************************************************)
\* the last MAX_CYCLES entries of the history
LastCycles ==
    {wcss_history[i] :
        i \in (Len(wcss_history) - MAX_CYCLES + 1)..Len(wcss_history)}

\* entries at an even distance from each other are equal
AlternatesOverLastCycles ==
    \A i, j \in (Len(wcss_history) - MAX_CYCLES + 1)..Len(wcss_history) :
        (j - i) % 2 = 0 => wcss_history[i] = wcss_history[j]

C25_GuardOnlyOnLowerStepOfTwoCycle ==
    OscillationGuardFired =>
        /\ iteration_count >= MAX_CYCLES
        /\ Len(wcss_history) = iteration_count
        /\ wcss_history[iteration_count] < wcss_history[iteration_count - 1]
        /\ AlternatesOverLastCycles
        /\ Cardinality(LastCycles) = 2

\* the guard has ended a Lloyd loop whose assignments were still changing
C25_Witness == OscillationGuardFired /\ k = 2

\* the higher step of the 2-cycle was passed with 30 values in the history
\* and the loop went on
C25_WitnessHigherStep ==
    /\ PassDone
    /\ ~converged
    /\ iteration_count >= MAX_CYCLES
    /\ wcss_history[iteration_count] > wcss_history[iteration_count - 1]
    /\ AlternatesOverLastCycles

(***************************************************************************)
(* C26: in each Lloyd iteration, no write to cluster_lookup or             *)
(* pixel_clusters happens while any worker of the parallel assignment map  *)
(* is still running: the complete movement list is collected first and     *)
(* then applied by one thread, so the partition and member order produced  *)
(* by an iteration are the same for every scheduling of the parallel       *)
(* workers.                                                                *)
(***************************************************************************)
\* the parallel map of the assignment has closures left to run
AssignmentRunning == pc = "kmeans_assign" /\ ~AllFinished

\* the cluster id the pixel at c is moved to from these centroids
ClusterTo(c, cents) ==
    MovementOf(rgba_image, cents, c[2] * rgba_image.width + c[1]).cluster_to

\* the one partition a pass from these centroids can produce: every
\* coordinate under the id of its movement, and every member list holding
\* exactly the coordinates of its id, each once, in raster order
PartitionOfPass(lookup, clusters, cents) ==
    /\ lookup = [c \in ImageCoords |-> ClusterTo(c, cents)]
    /\ DOMAIN clusters = {lookup[c] : c \in ImageCoords}
    /\ \A id \in DOMAIN clusters :
          /\ Range(clusters[id]) = {c \in ImageCoords : lookup[c] = id}
          /\ \A i, j \in DOMAIN clusters[id] :
                i < j => RasterIndex(clusters[id][i]) < RasterIndex(clusters[id][j])

C26_WritesAfterCollection ==
    [][/\ AssignmentRunning =>
              UNCHANGED <<new_cluster_lookup, new_pixel_clusters>>
       /\ (pc = "kmeans_assign" /\ pc' = "kmeans_lloyd") =>
              PartitionOfPass(new_cluster_lookup', new_pixel_clusters', centroids)
      ]_vars

\* the closures of a pass finished in an order other than the iterator's, and
\* two of those that finished out of order moved their pixels to one cluster
C26_Witness ==
    /\ pc = "kmeans_assign"
    /\ AllFinished
    /\ \E i, j \in DOMAIN par_results :
          /\ i < j
          /\ par_results[i].index > par_results[j].index
          /\ par_results[i].item.cluster_to = par_results[j].item.cluster_to

(***************************************************************************)
(* C27: build_factors, called once on an image, produces, for every        *)
(* scheduling of its parallel workers, the same list as a sequential       *)
(* raster scan: for each pixel a in row-major order, one factor for each   *)
(* in-bounds right, bottom-right, bottom and bottom-left neighbour b of a, *)
(* so every pair of 8-adjacent pixels appears in exactly one factor and a  *)
(* precedes b in raster order.                                             *)
(***************************************************************************)
\* a and b are distinct and at most one step apart in each direction
Adjacent8(a, b) ==
    /\ a # b
    /\ AbsDiff(a[1], b[1]) <= 1
    /\ AbsDiff(a[2], b[2]) <= 1

\* the neighbours of a in the order of the scan: right, bottom-right, bottom,
\* bottom-left
NeighbourRank(a, b) ==
    CASE b = <<a[1] + 1, a[2]>> -> 1
      [] b = <<a[1] + 1, a[2] + 1>> -> 2
      [] b = <<a[1], a[2] + 1>> -> 3
      [] OTHER -> 4

\* factors i < j are in the order of the sequential raster scan
InScanOrder(f, g) ==
    \/ RasterIndex(f.a_coords) < RasterIndex(g.a_coords)
    \/ /\ f.a_coords = g.a_coords
       /\ NeighbourRank(f.a_coords, f.b_coords) < NeighbourRank(g.a_coords, g.b_coords)

FactorsBuilt == pc \notin {"idle", "build_factors"}

C27_FactorsAsSequentialScan ==
    FactorsBuilt =>
        /\ pixeldist_factors = FlatMapFactors(rgba_image, pixeldist_alg, 0)
        /\ \A i, j \in DOMAIN pixeldist_factors :
              i < j => InScanOrder(pixeldist_factors[i], pixeldist_factors[j])
        /\ \A i \in DOMAIN pixeldist_factors :
              LET f == pixeldist_factors[i]
              IN  /\ f.a_coords \in ImageCoords
                  /\ f.b_coords \in ImageCoords
                  /\ Adjacent8(f.a_coords, f.b_coords)
                  /\ RasterIndex(f.a_coords) < RasterIndex(f.b_coords)
                  /\ f.distance = get_pixeldist(rgba_image.pixels[f.a_coords],
                                                rgba_image.pixels[f.b_coords],
                                                pixeldist_alg)
        /\ \A a, b \in ImageCoords :
              Adjacent8(a, b) =>
                  Cardinality({i \in DOMAIN pixeldist_factors :
                                  {pixeldist_factors[i].a_coords,
                                   pixeldist_factors[i].b_coords} = {a, b}}) = 1

\* the closures of build_factors finished in an order other than the
\* iterator's, each of two out of order with factors to append
C27_Witness ==
    /\ pc = "build_factors"
    /\ AllFinished
    /\ \E i, j \in DOMAIN par_results :
          /\ i < j
          /\ par_results[i].index > par_results[j].index
          /\ par_results[i].item # <<>>
          /\ par_results[j].item # <<>>

(***************************************************************************)
(* C28: the partition returned by agglomerative is exactly the set of      *)
(* connected components of the graph whose vertices are the image          *)
(* coordinates and whose edges are the factors with distance strictly      *)
(* below the threshold: two coordinates end in the same cluster if and     *)
(* only if a path of such factors joins them, whatever the order of the    *)
(* factors and whichever cluster absorbs the other.                        *)
(***************************************************************************)
\* the edges: the pairs of coordinates of the factors below the threshold
EdgesBelowThreshold ==
    {{pixeldist_factors[i].a_coords, pixeldist_factors[i].b_coords} :
        i \in {j \in DOMAIN pixeldist_factors :
                  pixeldist_factors[j].distance < nth_percentile_dist}}

\* the coordinates a path of edges joins to one of S
RECURSIVE ReachableFrom(_)
ReachableFrom(S) ==
    LET next == S \cup {c \in ImageCoords :
                            \E d \in S : {c, d} \in EdgesBelowThreshold}
    IN  IF next = S THEN S ELSE ReachableFrom(next)

ConnectedComponents == {ReachableFrom({c}) : c \in ImageCoords}

AggloReturned == pc = "done" /\ clustering_alg = "Agglomerative"

C28_PartitionIsConnectedComponents ==
    AggloReturned =>
        /\ \A a, b \in ImageCoords :
              (cluster_lookup[a] = cluster_lookup[b]) <=> (b \in ReachableFrom({a}))
        /\ {Range(pixel_clusters[id]) : id \in DOMAIN pixel_clusters} \ {{}}
              = ConnectedComponents
        /\ \A id \in DOMAIN pixel_clusters :
              Cardinality(Range(pixel_clusters[id])) = Len(pixel_clusters[id])

\* a run has ended with more than one cluster, one of them holding two
\* coordinates that no edge joins directly
C28_Witness ==
    /\ AggloReturned
    /\ Cardinality(ConnectedComponents) >= 2
    /\ \E a, b \in ImageCoords :
          /\ a # b
          /\ cluster_lookup[a] = cluster_lookup[b]
          /\ {a, b} \notin EdgesBelowThreshold

(***************************************************************************)
(* C29: for an image with at least k distinct RGB colours, after every     *)
(* Lloyd iteration of k_means for that k, pixel_clusters has exactly k     *)
(* non-empty member lists with ids 0..k-1, the k centroids have pairwise   *)
(* distinct RGB values, and all pixels with the same RGB value are in the  *)
(* same cluster.                                                           *)
(***************************************************************************)
EnoughColours == Cardinality(DistinctColours(rgba_image)) >= k

C29_KNonEmptyClusters ==
    (PassDone /\ EnoughColours) =>
        /\ DOMAIN new_pixel_clusters = 0..(k - 1)
        /\ \A id \in DOMAIN new_pixel_clusters : new_pixel_clusters[id] # <<>>
        /\ Len(centroids) = k
        /\ \A i, j \in DOMAIN centroids :
              i # j => centroids[i][2] # centroids[j][2]
        /\ \A a, b \in ImageCoords :
              Rgb(rgba_image.pixels[a]) = Rgb(rgba_image.pixels[b]) =>
                  new_cluster_lookup[a] = new_cluster_lookup[b]

\* a pass after the first has moved a pixel to another cluster
C29_Witness ==
    /\ PassDone
    /\ EnoughColours
    /\ iteration_count >= 2
    /\ \E c \in ImageCoords :
          last_pass.old_cluster_lookup[c] # new_cluster_lookup[c]

\* a pass on an image in which two pixels have the same RGB value
C29_WitnessRepeatedColour ==
    /\ PassDone
    /\ EnoughColours
    /\ \E a, b \in ImageCoords :
          a # b /\ Rgb(rgba_image.pixels[a]) = Rgb(rgba_image.pixels[b])

\* without that many colours a cluster id is missing after the pass
C29_WitnessTooFewColours ==
    /\ PassDone
    /\ ~EnoughColours
    /\ DOMAIN new_pixel_clusters # 0..(k - 1)

(***************************************************************************)
(* similarity/algs.rs: ImageSimilarityMatrix::from and ::get.  An          *)
(* Option<f32> is <<>> for None and <<v>> for Some(v); a Result is         *)
(* [ok, value, error].                                                     *)
(***************************************************************************)
MaxImages == 3

\* file names of images, one more than the longest list holds; two images in
\* different directories can share one
NamePool == <<"a.png", "b.png", "c.png", "d.png", "e.png">>

Names == {NamePool[i] : i \in 1..(MaxImages + 1)}

NameLists == UNION {[1..n -> Names] : n \in 0..MaxImages}

None == <<>>

Ok(option_similarity) == [ok |-> TRUE, value |-> option_similarity, error |-> ""]

Err(e) == [ok |-> FALSE, value |-> None, error |-> e]

\* ImageSimilarityMatrix::from: one insert of None per i < j
from(images) ==
    [key \in {<<images[p[1]], images[p[2]]>> :
                 p \in {q \in (1..Len(images)) \X (1..Len(images)) : q[1] < q[2]}}
        |-> None]

\* a plausible slip: the key is looked up in the given order only
get_given_order_only(m, name1, name2) ==
    IF <<name1, name2>> \in DOMAIN m
    THEN Ok(m[<<name1, name2>>])
    ELSE Err("ImageSimilarityMatrixNoMatchError")

\* ImageSimilarityMatrix::get
get(m, name1, name2) ==
    IF <<name1, name2>> \in DOMAIN m
    THEN Ok(m[<<name1, name2>>])
    ELSE IF <<name2, name1>> \in DOMAIN m
         THEN Ok(m[<<name2, name1>>])
         ELSE Err("ImageSimilarityMatrixNoMatchError")

InitMatrix ==
    /\ pixel_a = WHITE
    /\ pixel_b = WHITE
    /\ pixeldist_alg = "Euclidean"
    /\ dist_result = NoDist
    /\ dist_pc = "call"
    /\ CallsIdle
    /\ rgba_image = TestImage
    /\ pixeldist_factors = <<>>
    /\ cluster_lookup = EmptyMap
    /\ pixel_clusters = EmptyMap
    /\ clustering_alg = "Agglomerative"
    /\ agglo_tolerance = TolDen
    /\ pc = "idle"
    /\ nth_percentile_dist = NoDist
    /\ new_cluster_lookup = EmptyMap
    /\ new_pixel_clusters = EmptyMap
    /\ factor_idx = 0
    /\ last_merge = NoMerge
    /\ max_k = 2
    /\ k = 0
    /\ centroids = NoCentroids
    /\ converged = FALSE
    /\ iteration_count = 0
    /\ wcss_history = <<>>
    /\ last_pass = NoPass
    /\ k_partitions = <<>>
    /\ par_results = <<>>
    /\ image_names \in NameLists
    /\ matrix = EmptyMap
    /\ get_names = <<"", "">>
    /\ get_result = NoResult

\* get_similarities: let mut output_matrix = ImageSimilarityMatrix::from(images)
MatrixFrom ==
    /\ dist_pc = "call"
    /\ matrix' = from(image_names)
    /\ dist_pc' = "from_returned"
    /\ UNCHANGED <<pixel_a, pixel_b, dist_result, callVars, imageVars, optionVars,
                   pc, aggloVars, kmeansVars, par_results, image_names,
                   get_names, get_result>>

\* a call of get on the matrix
MatrixGet ==
    /\ dist_pc \in {"from_returned", "get_returned"}
    /\ \E name1, name2 \in Names :
          /\ get_names' = <<name1, name2>>
          /\ get_result' = get(matrix, name1, name2)
    /\ dist_pc' = "get_returned"
    /\ UNCHANGED <<pixel_a, pixel_b, dist_result, callVars, imageVars, optionVars,
                   pc, aggloVars, kmeansVars, par_results, image_names, matrix>>

NextMatrix == MatrixFrom \/ MatrixGet

SpecMatrix == InitMatrix /\ [][NextMatrix]_vars

(***************************************************************************)
(* C30: ImageSimilarityMatrix::from, given n images with pairwise distinct *)
(* names, creates exactly n(n-1)/2 entries, one per unordered pair with    *)
(* value None, and get is order-insensitive: get((a,b)) and get((b,a))     *)
(* return the same result, Ok with the stored entry when either ordering   *)
(* is a key and Err(ImageSimilarityMatrixNoMatchError) otherwise,          *)
(* including for (a,a).                                                    *)
(***************************************************************************)
PairwiseDistinctNames ==
    \A i, j \in DOMAIN image_names : i # j => image_names[i] # image_names[j]

FromReturned == dist_pc \in {"from_returned", "get_returned"}

\* the orderings of the pair that are keys of the matrix
KeysOf(a, b) == {<<a, b>>, <<b, a>>} \cap DOMAIN matrix

OnePerUnorderedPair ==
    LET n == Len(image_names)
    IN  /\ 2 * Cardinality(DOMAIN matrix) = n * (n - 1)
        /\ \A key \in DOMAIN matrix :
              /\ {key[1], key[2]} \subseteq Range(image_names)
              /\ key[1] # key[2]
              /\ matrix[key] = None
        /\ \A a, b \in Range(image_names) :
              a # b => Cardinality(KeysOf(a, b)) = 1

GetAsSpecified ==
    LET a == get_names[1]
        b == get_names[2]
    IN  /\ get_result = get(matrix, b, a)
        /\ IF KeysOf(a, b) # {}
           THEN \E key \in KeysOf(a, b) : get_result = Ok(matrix[key])
           ELSE get_result = Err("ImageSimilarityMatrixNoMatchError")
        /\ a = b => ~get_result.ok
        /\ get_result.ok <=> (a # b /\ {a, b} \subseteq Range(image_names))

C30_MatrixFromAndGet ==
    PairwiseDistinctNames =>
        /\ FromReturned => OnePerUnorderedPair
        /\ dist_pc = "get_returned" => GetAsSpecified

\* get was called with the two names of a key in the other order
C30_Witness ==
    /\ PairwiseDistinctNames
    /\ Len(image_names) = MaxImages
    /\ dist_pc = "get_returned"
    /\ <<get_names[2], get_names[1]>> \in DOMAIN matrix
    /\ get_result.ok

\* get was called with the name of an image and a name of none
C30_WitnessUnknownName ==
    /\ PairwiseDistinctNames
    /\ dist_pc = "get_returned"
    /\ get_names[1] \in Range(image_names)
    /\ get_names[2] \notin Range(image_names)
    /\ ~get_result.ok

\* get was called with the same name twice, the name of one of the images
C30_WitnessSameName ==
    /\ PairwiseDistinctNames
    /\ dist_pc = "get_returned"
    /\ get_names[1] = get_names[2]
    /\ get_names[1] \in Range(image_names)
    /\ ~get_result.ok

\* without distinct names there are fewer entries and get((a,a)) is Ok
C30_WitnessRepeatedName ==
    /\ ~PairwiseDistinctNames
    /\ dist_pc = "get_returned"
    /\ get_names[1] = get_names[2]
    /\ get_result.ok

====
